---------------------------- MODULE Spec2Model ----------------------------
(***************************************************************************)
(* Model of the Nscale plugin of the Waldur site agent: the backend        *)
(* adapter (backend.py) and the provider HTTP client (client.py).          *)
(*                                                                         *)
(* Strings that the code inspects character by character (backend IDs,     *)
(* group names) are sequences of one-character strings.  Python dicts are  *)
(* functions whose DOMAIN is the set of keys that are present.  An         *)
(* Optional value is a tuple: <<>> is None and <<x>> is the value x.       *)
(*                                                                         *)
(* The specifications share the variables:                                 *)
(*   SpecUsage     limit and usage translation of the backend adapter      *)
(*   Spec          resource lifecycle against the provider's compute       *)
(*                 service                                                 *)
(*   SpecAssoc     user associations against the identity service          *)
(*   SpecIdentity  the typed identity endpoints, called directly           *)
(*   SpecOps       listing, limits, usage, health and power operations     *)
(*   SpecHttp      the request primitive and the parsing of responses      *)
(*   SpecCalls     every operation of the adapter, called once             *)
(***************************************************************************)

EXTENDS Integers, Sequences, FiniteSets, TLC

VARIABLES
    backend_components,  \* NscaleBackend.backend_components (host-supplied)
    resource_type,       \* NscaleBackend.resource_type
    identity_api_url,    \* NscaleClient.identity_api_url: <<>> or <<url>>
    instances,           \* provider: the compute instances, by id
    clusters,            \* provider: the ids of the compute clusters
    users,               \* identity service: the listing of organization users
    groups,              \* identity service: the listing of groups
    op,                  \* the last operation called, with its arguments
    ret,                 \* what it returned or raised
    log                  \* the HTTP requests it issued, in order (and the calls
                         \* a backend hook made of the client's limit setter)

vars == <<backend_components, resource_type, identity_api_url, instances,
          clusters, users, groups, op, ret, log>>

config == <<backend_components, resource_type, identity_api_url>>
provider == <<instances, clusters>>
identity == <<users, groups>>

-----------------------------------------------------------------------------
(* Bounds of the model *)

MaxValue == 3

MaxUnitFactor == 2

MaxUsers == 2

MaxGroups == 2

MaxDocs == 3

-----------------------------------------------------------------------------
(* Generic helpers *)

None == <<>>

Some(x) == <<x>>

Max(a, b) == IF a >= b THEN a ELSE b

Range(s) == {s[i] : i \in DOMAIN s}

\* dicts over a subset of the keys K with values in V
PartialFns(K, V) == UNION {[S -> V] : S \in SUBSET K}

SeqsUpTo(S, n) == UNION {[1..k -> S] : k \in 0..n}

\* dict.get(key, default)
Get(d, k, default) == IF k \in DOMAIN d THEN d[k] ELSE default

\* What a call gives its caller: a value, or an exception with its cause
\* ("raise ... from e").
Returned(v) == [raised |-> "none", value |-> v, cause |-> "none"]

Raised(kind) == [raised |-> kind, value |-> None, cause |-> "none"]

RaisedFrom(kind, cause) == [raised |-> kind, value |-> None, cause |-> cause]

NoOp == [name |-> "init"]

-----------------------------------------------------------------------------
(* Components, host limits and instance documents *)

Components == {"cpu", "memory", "storage", "gpu"}

Values == 0..MaxValue

UnitFactors == 0..MaxUnitFactor

\* A component's configuration entry; unit_factor is optional.
ComponentConfig ==
    {[measured_unit |-> "unit"]}
        \cup {[measured_unit |-> "unit", unit_factor |-> f] : f \in UnitFactors}

ComponentConfigs ==
    UNION {[S -> ComponentConfig] :
               S \in {T \in SUBSET Components : Cardinality(T) <= 2}}

\* WaldurResource.limits as a dict: the components the order sets.
HostLimits == PartialFns({"cpu", "memory", "gpu"}, Values)

\* An instance as the provider returns it: the spec block and the
\* top-level fields of the same names.
InstanceDocs ==
    {[spec |-> s, top |-> t] :
        s \in {m @@ c : m \in PartialFns({"memory"}, Values),
                         c \in PartialFns({"cpu"}, {1})},
        t \in PartialFns({"memory"}, {MaxValue})}

\* component_config.get("unit_factor", 1)
UnitFactorOf(component_config) == Get(component_config, "unit_factor", 1)


-----------------------------------------------------------------------------
(* Exceptions and HTTP requests *)

\* The exception classes an "except <clause>" catches: NscaleAPIError is an
\* NscaleError, and every class here is an Exception.
Catches(clause, kind) ==
    \/ clause = "Exception"
    \/ clause = kind
    \/ clause = "NscaleError" /\ kind = "NscaleAPIError"

\* One HTTP exchange: the request, and the kind of answer the caller saw.
Exch(method, endpoint, id, answer) ==
    [method |-> method, endpoint |-> endpoint, id |-> id, answer |-> answer]

\* What one HTTP call of a typed endpoint method gives its caller:
\*   ok         a 2xx response whose body parses to the expected document
\*   api_error  _make_request or _parse_json_response raises NscaleAPIError
\*   malformed  a 2xx JSON body of another shape (a list, a null field): the
\*              caller's first access raises AttributeError or TypeError
ApiError == [kind |-> "api_error"]

Malformed == [kind |-> "malformed"]

Ok(doc) == [kind |-> "ok", doc |-> doc]

\* client.get_compute_instance(id) followed by the caller's reads of it
FetchRaises(resp) ==
    CASE resp.kind = "api_error" -> "NscaleAPIError"
      [] resp.kind = "malformed" -> "AttributeError"
      [] OTHER -> "none"

-----------------------------------------------------------------------------
(* Backend adapter: limit and usage translation *)

\* raw_limits.to_dict() if hasattr(raw_limits, "to_dict") else raw_limits or {}
ResourceLimitsDict(raw_limits) == IF raw_limits = None THEN <<>> ELSE raw_limits[1]

\* the conversion with the multiplication left out
NscaleValue_NoFactor(waldur_value, unit_factor) == waldur_value

\* int(waldur_value) * unit_factor
NscaleValue(waldur_value, unit_factor) == waldur_value * unit_factor

\* "if waldur_value:" in place of "if waldur_value is not None:"
CollectedKeys_Truthy(resource_limits) ==
    {c \in DOMAIN backend_components :
        c \in DOMAIN resource_limits /\ resource_limits[c] # 0}

\* the components the loop of _collect_resource_limits records
CollectedKeys(resource_limits) ==
    {c \in DOMAIN backend_components : c \in DOMAIN resource_limits}

_collect_resource_limits(raw_limits) ==
    LET resource_limits == ResourceLimitsDict(raw_limits)
        keys == CollectedKeys(resource_limits)
    IN  [nscale_limits |->
             [c \in keys |->
                 NscaleValue(resource_limits[c], UnitFactorOf(backend_components[c]))],
         waldur_limits |-> [c \in keys |-> resource_limits[c]]]

\* spec.get(component_key, instance.get(component_key, 0))
BackendValue(instance, c) == Get(instance.spec, c, Get(instance.top, c, 0))

\* rounding up in place of floor division
UsageValue_Ceil(backend_value, unit_factor) ==
    (backend_value + Max(unit_factor, 1) - 1) \div Max(unit_factor, 1)

\* backend_value // max(unit_factor, 1)
UsageValue(backend_value, unit_factor) == backend_value \div Max(unit_factor, 1)

UsageOf(instance) ==
    [c \in DOMAIN backend_components |->
        UsageValue(BackendValue(instance, c), UnitFactorOf(backend_components[c]))]

\* dict.fromkeys(self.backend_components, 0)
EmptyUsage == [c \in DOMAIN backend_components |-> 0]

UsageEntry(usage) == [TOTAL_ACCOUNT_USAGE |-> usage]

\* report[resource_id] = ...
Put(d, k, v) == [x \in DOMAIN d \cup {k} |-> IF x = k THEN v ELSE d[x]]

\* catching the API error alone
UsageExceptClause_Narrow == "NscaleAPIError"

\* The exception clause of the loop body of _get_usage_report.
UsageExceptClause == "Exception"

\* One pass of the loop body: the try block and its handler.
UsageRow(resp) ==
    LET exc == FetchRaises(resp)
    IN  IF exc = "none" THEN Returned(UsageEntry(UsageOf(resp.doc)))
        ELSE IF Catches(UsageExceptClause, exc) THEN Returned(UsageEntry(EmptyUsage))
        ELSE Raised(exc)

RECURSIVE UsageLoop(_, _, _, _, _)
UsageLoop(ids, resp, i, report, reqs) ==
    IF i > Len(ids) THEN [ret |-> Returned(report), log |-> reqs]
    ELSE LET row  == UsageRow(resp[i])
             sent == Append(reqs, Exch("GET", "instances", ids[i], resp[i].kind))
         IN  IF row.raised # "none" THEN [ret |-> row, log |-> sent]
             ELSE UsageLoop(ids, resp, i + 1, Put(report, ids[i], row.value), sent)

_get_usage_report(ids, resp) == UsageLoop(ids, resp, 1, <<>>, <<>>)

-----------------------------------------------------------------------------
(* SpecUsage: the translation functions applied to bounded inputs *)

UsageIds == {<<"a">>, <<"b">>}

UsageIdLists == SeqsUpTo(UsageIds, 2)

Responses == {ApiError, Malformed} \cup {Ok(d) : d \in InstanceDocs}

\* The calls the host makes of the translation functions.
UsageCalls ==
    {[name |-> "_collect_resource_limits", limits |-> raw_limits] :
        raw_limits \in {None} \cup {Some(l) : l \in HostLimits}}
    \cup
    UNION {{[name |-> "_get_usage_report", ids |-> ids, resp |-> resp] :
               resp \in [1..Len(ids) -> Responses]} : ids \in UsageIdLists}

\* The call is made, and has not returned yet.
Pending == [raised |-> "pending", value |-> None, cause |-> "none"]

\* SpecUsage starts with the backend constructed and one call made; its
\* actions run the call to completion.
InitUsage ==
    /\ backend_components \in ComponentConfigs
    /\ resource_type = "instance"
    /\ identity_api_url = None
    /\ instances = <<>>
    /\ clusters = {}
    /\ users = <<>>
    /\ groups = <<>>
    /\ op \in UsageCalls
    /\ ret = Pending
    /\ log = <<>>

CollectResourceLimits ==
    /\ ret = Pending
    /\ op.name = "_collect_resource_limits"
    /\ ret' = Returned(_collect_resource_limits(op.limits))
    /\ log' = <<>>
    /\ UNCHANGED <<config, provider, identity, op>>

GetUsageReport ==
    /\ ret = Pending
    /\ op.name = "_get_usage_report"
    /\ LET out == _get_usage_report(op.ids, op.resp)
       IN  /\ ret' = out.ret
           /\ log' = out.log
    /\ UNCHANGED <<config, provider, identity, op>>

NextUsage == CollectResourceLimits \/ GetUsageReport

SpecUsage == InitUsage /\ [][NextUsage]_vars


-----------------------------------------------------------------------------
(* Claims on the translation functions, checked under SpecUsage *)

UsageReturned == op.name = "_get_usage_report" /\ ret.raised # "pending"

CollectReturned == op.name = "_collect_resource_limits" /\ ret.raised # "pending"

\* the fetch at position i decides the row of its ID: no later fetch of it
LastFetch(i) == \A j \in DOMAIN op.ids : j > i => op.ids[j] # op.ids[i]

\* the unit factor the host declares for component c, 1 when it declares none
DeclaredFactor(c) ==
    IF "unit_factor" \in DOMAIN backend_components[c]
    THEN backend_components[c].unit_factor ELSE 1

\* C1: for any list of requested backend IDs and any pattern of fetch
\* failures, _get_usage_report returns without raising and its report has
\* one entry per requested ID (as many entries as IDs when the IDs are
\* distinct); the entry of an ID whose fetch failed has every configured
\* component equal to 0 under TOTAL_ACCOUNT_USAGE.
C1_UsageReportOneRowPerId ==
    UsageReturned =>
        /\ ret.raised = "none"
        /\ DOMAIN ret.value = Range(op.ids)
        /\ (\A i, j \in DOMAIN op.ids : i # j => op.ids[i] # op.ids[j])
               => Cardinality(DOMAIN ret.value) = Len(op.ids)
        /\ \A i \in DOMAIN op.ids :
               LET row == ret.value[op.ids[i]]
               IN  /\ DOMAIN row = {"TOTAL_ACCOUNT_USAGE"}
                   /\ DOMAIN row.TOTAL_ACCOUNT_USAGE = DOMAIN backend_components
                   /\ (op.resp[i].kind # "ok" /\ LastFetch(i))
                          => \A c \in DOMAIN backend_components :
                                 row.TOTAL_ACCOUNT_USAGE[c] = 0

\* "a" is fetched and reports a usage, the fetch of "b" fails in each way
C1_Witness ==
    /\ UsageReturned
    /\ ret.raised = "none"
    /\ op.ids = <<(<<"a">>), (<<"b">>)>>
    /\ op.resp[1].kind = "ok"
    /\ op.resp[2].kind = "malformed"
    /\ "memory" \in DOMAIN backend_components
    /\ ret.value[<<"a">>].TOTAL_ACCOUNT_USAGE["memory"] > 0
    /\ ret.value[<<"b">>].TOTAL_ACCOUNT_USAGE["memory"] = 0

\* C4: _collect_resource_limits returns two mappings with the same keys,
\* the configured components present in the host limits; for each of them
\* waldur_limits[c] is the host value and nscale_limits[c] is the host value
\* times the component's unit factor.  A configured component absent from
\* the host limits, and a host limit of a component that is not configured,
\* are in neither mapping.
C4_CollectedLimits ==
    CollectReturned =>
        LET host == IF op.limits = None THEN <<>> ELSE op.limits[1]
            keys == DOMAIN backend_components \cap DOMAIN host
            out  == ret.value
        IN  /\ ret.raised = "none"
            /\ DOMAIN out.nscale_limits = keys
            /\ DOMAIN out.waldur_limits = keys
            /\ \A c \in keys :
                   /\ out.waldur_limits[c] = host[c]
                   /\ out.nscale_limits[c] = host[c] * DeclaredFactor(c)

\* memory is configured with factor 2 and limited to 3, cpu is configured
\* and limited to 0, gpu is limited but not configured
C4_Witness ==
    /\ CollectReturned
    /\ op.limits # None
    /\ DOMAIN backend_components = {"cpu", "memory"}
    /\ DeclaredFactor("memory") = 2
    /\ DOMAIN op.limits[1] = {"cpu", "memory", "gpu"}
    /\ op.limits[1]["memory"] = 3
    /\ op.limits[1]["cpu"] = 0
    /\ ret.value.nscale_limits = [cpu |-> 0, memory |-> 6]
    /\ ret.value.waldur_limits = [cpu |-> 0, memory |-> 3]

\* C5: for every fetched instance and every configured component c the
\* report holds usage[c] = allocated(c) // max(unit_factor(c), 1) (the floor
\* of the quotient) under the single key TOTAL_ACCOUNT_USAGE, where
\* allocated(c) is spec[c] if present, else the top-level field c, else 0.
C5_UsageFloorDivision ==
    UsageReturned =>
        \A i \in DOMAIN op.ids :
            (op.resp[i].kind = "ok" /\ LastFetch(i)) =>
                LET doc == op.resp[i].doc
                    row == ret.value[op.ids[i]]
                IN  /\ DOMAIN row = {"TOTAL_ACCOUNT_USAGE"}
                    /\ \A c \in DOMAIN backend_components :
                           LET allocated ==
                                   IF c \in DOMAIN doc.spec THEN doc.spec[c]
                                   ELSE IF c \in DOMAIN doc.top THEN doc.top[c]
                                   ELSE 0
                               d == IF DeclaredFactor(c) >= 1
                                    THEN DeclaredFactor(c) ELSE 1
                               u == row.TOTAL_ACCOUNT_USAGE[c]
                           IN  u * d <= allocated /\ allocated < (u + 1) * d

\* memory 3 with unit factor 2 is reported as 1
C5_Witness ==
    /\ UsageReturned
    /\ op.ids = <<(<<"a">>)>>
    /\ op.resp[1].kind = "ok"
    /\ "memory" \in DOMAIN op.resp[1].doc.spec
    /\ op.resp[1].doc.spec["memory"] = 3
    /\ "memory" \in DOMAIN backend_components
    /\ DeclaredFactor("memory") = 2
    /\ ret.value[<<"a">>].TOTAL_ACCOUNT_USAGE["memory"] = 1

\* the instance whose spec holds the provider-native limits
InstanceWithSpec(nscale_limits) == [spec |-> nscale_limits, top |-> <<>>]

\* C6 as stated: for every component with a declared unit factor f and every
\* host limit v, the usage conversion of the provider-native limit v * f
\* gives v back.
C6_RoundTripAnyFactor ==
    CollectReturned =>
        \A c \in DOMAIN ret.value.waldur_limits :
            UsageOf(InstanceWithSpec(ret.value.nscale_limits))[c]
                = ret.value.waldur_limits[c]

\* C6, amended: the round trip gives v back for every component whose
\* declared unit factor is at least 1.
C6_RoundTripPositiveFactor ==
    CollectReturned =>
        \A c \in DOMAIN ret.value.waldur_limits :
            DeclaredFactor(c) >= 1 =>
                UsageOf(InstanceWithSpec(ret.value.nscale_limits))[c]
                    = ret.value.waldur_limits[c]

\* the limit 3 of a component with unit factor 2 went to 6 and back to 3
C6_Witness ==
    /\ CollectReturned
    /\ "memory" \in DOMAIN ret.value.waldur_limits
    /\ DeclaredFactor("memory") = 2
    /\ ret.value.waldur_limits["memory"] = 3
    /\ ret.value.nscale_limits["memory"] = 6
    /\ UsageOf(InstanceWithSpec(ret.value.nscale_limits))["memory"] = 3


-----------------------------------------------------------------------------
(* Strings *)

IsSpace(ch) == ch = " "

RECURSIVE LStrip(_)
LStrip(str) ==
    IF str # <<>> /\ IsSpace(Head(str)) THEN LStrip(Tail(str)) ELSE str

RECURSIVE RStrip(_)
RStrip(str) ==
    IF str # <<>> /\ IsSpace(str[Len(str)])
    THEN RStrip(SubSeq(str, 1, Len(str) - 1)) ELSE str

\* str.strip()
Strip(str) == RStrip(LStrip(str))

-----------------------------------------------------------------------------
(* The provider's compute service, as the typed endpoint methods see it.   *)
(* A world w holds the instances (id -> spec and power state) and the      *)
(* cluster ids.                                                            *)
(* The environment chooses a fault for each call:                          *)
(*   none     the service handles the request and answers                  *)
(*   error    the request fails before the service handles it              *)
(*   garbled  (reads) the answer is a 2xx JSON body of another shape       *)
(*   lost     (writes) the service handles the request, the answer fails   *)

ReadFaults == {"none", "error", "garbled"}

WriteFaults == {"none", "error", "lost"}

World == [instances |-> instances, clusters |-> clusters]

Without(f, k) == [x \in DOMAIN f \ {k} |-> f[x]]

InstanceDoc(w, id) ==
    [metadata |-> [id |-> id, name |-> id], spec |-> w.instances[id].spec]

ClusterDoc(id) == [metadata |-> [id |-> id, name |-> id]]

\* the answer of a read of a document that exists or not
ReadAnswer(exists, doc, fault) ==
    IF fault = "garbled" THEN Malformed
    ELSE IF fault = "error" \/ ~exists THEN ApiError
    ELSE Ok(doc)

\* the answer of a write the service accepts or not
WriteAnswer(accepted, fault) ==
    IF fault = "none" /\ accepted THEN "ok" ELSE "api_error"

get_compute_instance(w, id, fault) ==
    ReadAnswer(id \in DOMAIN w.instances,
               IF id \in DOMAIN w.instances THEN InstanceDoc(w, id) ELSE None,
               fault)

get_compute_cluster(w, id, fault) ==
    ReadAnswer(id \in w.clusters, ClusterDoc(id), fault)

create_compute_instance(w, instance_data, fault) ==
    LET id == instance_data.metadata.name
    IN  [answer |-> WriteAnswer(TRUE, fault),
         world  |-> IF fault = "error" \/ id \in DOMAIN w.instances THEN w
                    ELSE [w EXCEPT !.instances =
                              Put(w.instances, id,
                                  [spec |-> <<>>, running |-> TRUE])]]

create_compute_cluster(w, cluster_data, fault) ==
    LET id == cluster_data.metadata.name
    IN  [answer |-> WriteAnswer(TRUE, fault),
         world  |-> IF fault = "error" THEN w
                    ELSE [w EXCEPT !.clusters = w.clusters \cup {id}]]

delete_compute_instance(w, id, fault) ==
    [answer |-> WriteAnswer(id \in DOMAIN w.instances, fault),
     world  |-> IF fault = "error" THEN w
                ELSE [w EXCEPT !.instances = Without(w.instances, id)]]

delete_compute_cluster(w, id, fault) ==
    [answer |-> WriteAnswer(id \in w.clusters, fault),
     world  |-> IF fault = "error" THEN w
                ELSE [w EXCEPT !.clusters = w.clusters \ {id}]]

\* what a call of a write method raises
WriteRaises(answer) == IF answer = "ok" THEN "none" ELSE "NscaleAPIError"

-----------------------------------------------------------------------------
(* Client: the generic resource contract *)

\* The result of an operation: what it gave, the exchanges, the world after.
Outcome(r, exchanges, w) == [ret |-> r, log |-> exchanges, world |-> w]

ClientResource(doc) ==
    [name |-> doc.metadata.id, description |-> doc.metadata.name,
     organization |-> "project_id", backend_id |-> doc.metadata.id]

\* catching the API error alone in get_resource
GetResourceExceptClause_Narrow == "NscaleAPIError"

\* the exception clause of both handlers of get_resource
GetResourceExceptClause == "Exception"

\* NscaleClient.get_resource
get_resource(w, resource_id, f1, f2) ==
    LET r1   == get_compute_instance(w, resource_id, f1)
        log1 == <<Exch("GET", "instances", resource_id, r1.kind)>>
        exc1 == FetchRaises(r1)
        r2   == get_compute_cluster(w, resource_id, f2)
        log2 == Append(log1, Exch("GET", "clusters", resource_id, r2.kind))
        exc2 == FetchRaises(r2)
    IN  IF exc1 = "none" THEN Outcome(Returned(Some(ClientResource(r1.doc))), log1, w)
        ELSE IF ~Catches(GetResourceExceptClause, exc1) THEN Outcome(Raised(exc1), log1, w)
        ELSE IF exc2 = "none"
             THEN Outcome(Returned(Some(ClientResource(r2.doc))), log2, w)
        ELSE IF ~Catches(GetResourceExceptClause, exc2) THEN Outcome(Raised(exc2), log2, w)
        ELSE Outcome(Returned(None), log2, w)

\* the handler of the instance deletion ("except Exception:")
DeleteOuterExceptClause == "Exception"

\* an inner handler that does not cover the API error
DeleteInnerExceptClause_ValueError == "ValueError"

\* the handler of the cluster deletion ("except Exception:")
DeleteInnerExceptClause == "Exception"

\* NscaleClient.delete_resource
client_delete_resource(w, name, f1, f2) ==
    LET d1   == delete_compute_instance(w, name, f1)
        log1 == <<Exch("DELETE", "instances", name, d1.answer)>>
        exc1 == WriteRaises(d1.answer)
        d2   == delete_compute_cluster(d1.world, name, f2)
        log2 == Append(log1, Exch("DELETE", "clusters", name, d2.answer))
        exc2 == WriteRaises(d2.answer)
    IN  IF exc1 = "none" THEN Outcome(Returned(name), log1, d1.world)
        ELSE IF ~Catches(DeleteOuterExceptClause, exc1)
             THEN Outcome(Raised(exc1), log1, d1.world)
        ELSE IF exc2 = "none" \/ Catches(DeleteInnerExceptClause, exc2)
             THEN Outcome(Returned(name), log2, d2.world)
        ELSE Outcome(Raised(exc2), log2, d2.world)

-----------------------------------------------------------------------------
(* Backend adapter: creation and deletion *)

\* the payload of _create_instance_resource
InstanceData(resource_backend_id) ==
    [metadata |-> [name |-> resource_backend_id],
     spec |-> [flavorId |-> "instance_type"]]

\* the payload of _create_cluster_resource
ClusterData(resource_backend_id) ==
    [metadata |-> [name |-> resource_backend_id],
     spec |-> [workloadPools |->
                  <<[name |-> "default", replicas |-> 1,
                     flavorId |-> "instance_type"]>>]]

\* a handler that logs the provider error and reports failure
CreateFailure_Swallowed(exc) == Returned(FALSE)

\* except NscaleAPIError as e: raise BackendError(...) from e
CreateFailure(exc) ==
    IF Catches("NscaleAPIError", exc) THEN RaisedFrom("BackendError", exc)
    ELSE Raised(exc)

\* NscaleBackend._create_instance_resource
_create_instance_resource(w, resource_backend_id, sent, fault) ==
    LET c    == create_compute_instance(w, InstanceData(resource_backend_id), fault)
        log1 == Append(sent, Exch("POST", "instances", <<>>, c.answer))
        exc  == WriteRaises(c.answer)
    IN  IF exc = "none" THEN Outcome(Returned(TRUE), log1, c.world)
        ELSE Outcome(CreateFailure(exc), log1, c.world)

\* NscaleBackend._create_cluster_resource
_create_cluster_resource(w, resource_backend_id, sent, fault) ==
    LET c    == create_compute_cluster(w, ClusterData(resource_backend_id), fault)
        log1 == Append(sent, Exch("POST", "clusters", <<>>, c.answer))
        exc  == WriteRaises(c.answer)
    IN  IF exc = "none" THEN Outcome(Returned(TRUE), log1, c.world)
        ELSE Outcome(CreateFailure(exc), log1, c.world)

\* an existence check that is never satisfied
AlreadyExists_Never(found) == FALSE

\* self.client.get_resource(resource_backend_id) is not None
AlreadyExists(found) == found # None

\* NscaleBackend._create_backend_resource
_create_backend_resource(w, resource_backend_id, f1, f2, f3) ==
    LET g == get_resource(w, resource_backend_id, f1, f2)
    IN  IF g.ret.raised # "none" THEN g
        ELSE IF AlreadyExists(g.ret.value) THEN Outcome(Returned(TRUE), g.log, w)
        ELSE IF resource_type = "cluster"
             THEN _create_cluster_resource(w, resource_backend_id, g.log, f3)
        ELSE _create_instance_resource(w, resource_backend_id, g.log, f3)

\* BaseBackend.delete_resource, the generic deletion path of the host
\* framework: it deletes through the client's delete_resource.
base_delete_resource(w, backend_id, f1, f2) ==
    LET d == client_delete_resource(w, backend_id[1], f1, f2)
    IN  IF d.ret.raised # "none" THEN d ELSE Outcome(Returned(None), d.log, d.world)

\* a guard that tests the backend ID for emptiness alone
BlankBackendId_NoStrip(backend_id) == backend_id = None \/ backend_id[1] = <<>>

\* not resource_backend_id or not resource_backend_id.strip()
BlankBackendId(backend_id) ==
    backend_id = None \/ backend_id[1] = <<>> \/ Strip(backend_id[1]) = <<>>

\* NscaleBackend.delete_resource; backend_id is waldur_resource.backend_id
backend_delete_resource(w, backend_id, f1, f2) ==
    IF resource_type = "cluster"
    THEN IF BlankBackendId(backend_id) THEN Outcome(Returned(None), <<>>, w)
         ELSE LET d   == delete_compute_cluster(w, backend_id[1], f1)
                  exc == WriteRaises(d.answer)
                  log1 == <<Exch("DELETE", "clusters", backend_id[1], d.answer)>>
              IN  IF exc = "none" \/ Catches("NscaleAPIError", exc)
                  THEN Outcome(Returned(None), log1, d.world)
                  ELSE Outcome(Raised(exc), log1, d.world)
    ELSE base_delete_resource(w, backend_id, f1, f2)

-----------------------------------------------------------------------------
(* Spec: the resource lifecycle against the compute service *)

ProviderIds == {<<"a">>, <<"b">>}

\* the IDs the host asks about: the provider's, and blank or padded ones
BackendIds == ProviderIds \cup {<<>>, <<" ">>, <<" ", "a">>}

Init ==
    /\ backend_components = <<>>
    /\ resource_type \in {"instance", "cluster"}
    /\ identity_api_url = None
    /\ instances \in UNION {[S -> {[spec |-> <<>>, running |-> TRUE]}] :
                                 S \in SUBSET ProviderIds}
    /\ clusters \in SUBSET ProviderIds
    /\ users = <<>>
    /\ groups = <<>>
    /\ op = NoOp
    /\ ret = Returned(None)
    /\ log = <<>>

\* the effect of an operation on the variables
Apply(call, out) ==
    /\ op' = call
    /\ ret' = out.ret
    /\ log' = out.log
    /\ instances' = out.world.instances
    /\ clusters' = out.world.clusters
    /\ UNCHANGED <<config, identity>>

ClientGetResource ==
    \E id \in BackendIds, f1, f2 \in ReadFaults :
        Apply([name |-> "get_resource", id |-> id],
              get_resource(World, id, f1, f2))

ClientDeleteResource ==
    \E id \in BackendIds, f1, f2 \in WriteFaults :
        Apply([name |-> "client.delete_resource", id |-> id],
              client_delete_resource(World, id, f1, f2))

CreateBackendResource ==
    \E id \in ProviderIds, f1, f2 \in ReadFaults, f3 \in WriteFaults :
        Apply([name |-> "_create_backend_resource", id |-> id],
              _create_backend_resource(World, id, f1, f2, f3))

\* The host calls the generic path with the backend ID of a provisioned
\* resource; a cluster-typed backend handles any backend ID itself.
BackendDeleteResource ==
    \E backend_id \in {None} \cup {Some(id) : id \in BackendIds},
       f1, f2 \in WriteFaults :
        /\ resource_type = "cluster" \/ backend_id # None
        /\ Apply([name |-> "delete_resource", backend_id |-> backend_id],
                 backend_delete_resource(World, backend_id, f1, f2))

Next ==
    \/ ClientGetResource
    \/ ClientDeleteResource
    \/ CreateBackendResource
    \/ BackendDeleteResource

Spec == Init /\ [][Next]_vars

-----------------------------------------------------------------------------
(* Claims on the resource lifecycle, checked under Spec *)

IsCreate(e) == e.method = "POST" /\ e.endpoint \in {"instances", "clusters"}

IsLookupHit(e) ==
    e.method = "GET" /\ e.endpoint \in {"instances", "clusters"} /\ e.answer = "ok"

IsFailedCreate(e) == IsCreate(e) /\ e.answer # "ok"

\* the exchanges of the last operation, by kind
Creates == {i \in DOMAIN log : IsCreate(log[i])}

LookupHits == {i \in DOMAIN log : IsLookupHit(log[i])}

FailedCreates == {i \in DOMAIN log : IsFailedCreate(log[i])}

\* C2: when the existence lookup of _create_backend_resource reports a
\* resource (its instance or its cluster lookup is answered), the operation
\* returns True and issues no create request, neither for an instance nor
\* for a cluster, with either resource_type.
C2_CreateIdempotentOnExistence ==
    (op.name = "_create_backend_resource" /\ LookupHits # {}) =>
        /\ ret.raised = "none"
        /\ ret.value = TRUE
        /\ Creates = {}

\* a cluster-typed backend finds the ID as a cluster after the instance
\* lookup failed, and creates nothing
C2_Witness ==
    /\ op.name = "_create_backend_resource"
    /\ resource_type = "cluster"
    /\ Len(log) = 2
    /\ log[1].answer = "api_error"
    /\ log[2] = Exch("GET", "clusters", op.id, "ok")
    /\ ret.raised = "none"
    /\ ret.value = TRUE

\* C3: when the create-instance or create-cluster call of
\* _create_backend_resource fails, the operation raises BackendError with the
\* provider's API error as its cause, returns no value, and has issued the
\* create request once.
C3_CreateFailureIsFatal ==
    (op.name = "_create_backend_resource" /\ FailedCreates # {}) =>
        /\ ret.raised = "BackendError"
        /\ ret.cause = "NscaleAPIError"
        /\ ret.value = None
        /\ Cardinality(Creates) = 1

\* the cluster creation failed after both lookups found nothing
C3_Witness ==
    /\ op.name = "_create_backend_resource"
    /\ resource_type = "cluster"
    /\ Len(log) = 3
    /\ log[3] = Exch("POST", "clusters", <<>>, "api_error")
    /\ ret.raised = "BackendError"

\* C7: get_resource(id) never raises; it looks the instance up first and
\* the cluster only if the instance lookup failed; it returns a resource
\* record if a lookup succeeded and None if both failed.
C7_GetResourceNeverRaises ==
    op.name = "get_resource" =>
        /\ ret.raised = "none"
        /\ Len(log) \in {1, 2}
        /\ log[1].method = "GET" /\ log[1].endpoint = "instances"
        /\ log[1].id = op.id
        /\ Len(log) = 2 <=> log[1].answer # "ok"
        /\ Len(log) = 2 =>
               /\ log[2].method = "GET" /\ log[2].endpoint = "clusters"
               /\ log[2].id = op.id
        /\ ret.value # None <=> log[Len(log)].answer = "ok"
        /\ ret.value # None => ret.value[1].backend_id = op.id

\* both lookups of an ID the provider does not hold fail: not found
C7_Witness ==
    /\ op.name = "get_resource"
    /\ op.id = <<"a">>
    /\ op.id \notin DOMAIN instances
    /\ op.id \notin clusters
    /\ Len(log) = 2
    /\ log[1].answer = "api_error"
    /\ log[2].answer = "api_error"
    /\ ret = Returned(None)

\* C8: the client's delete_resource(id) never raises and returns the id in
\* every case; it attempts the instance deletion first and the cluster
\* deletion only if the instance deletion failed.
C8_DeleteResourceBestEffort ==
    op.name = "client.delete_resource" =>
        /\ ret.raised = "none"
        /\ ret.value = op.id
        /\ Len(log) \in {1, 2}
        /\ log[1].method = "DELETE" /\ log[1].endpoint = "instances"
        /\ log[1].id = op.id
        /\ Len(log) = 2 <=> log[1].answer # "ok"
        /\ Len(log) = 2 =>
               /\ log[2].method = "DELETE" /\ log[2].endpoint = "clusters"
               /\ log[2].id = op.id

\* both deletions of a resource that is already gone fail, and the id is
\* returned
C8_Witness ==
    /\ op.name = "client.delete_resource"
    /\ op.id = <<"a">>
    /\ op.id \notin DOMAIN instances
    /\ op.id \notin clusters
    /\ Len(log) = 2
    /\ log[1].answer = "api_error"
    /\ log[2].answer = "api_error"
    /\ ret = Returned(op.id)

\* None, the empty string, or whitespace alone
IsBlank(backend_id) ==
    backend_id = None \/ \A i \in DOMAIN backend_id[1] : backend_id[1][i] = " "

\* C9: delete_resource of a cluster-typed backend issues no provider call
\* and returns normally when the backend ID is None, empty or whitespace
\* alone; otherwise it issues one cluster deletion for that ID, none for an
\* instance, and does not raise when the call fails with an API error.
C9_ClusterDeleteGuard ==
    (op.name = "delete_resource" /\ resource_type = "cluster") =>
        /\ ret.raised = "none"
        /\ IF IsBlank(op.backend_id) THEN log = <<>>
           ELSE /\ Len(log) = 1
                /\ log[1].method = "DELETE"
                /\ log[1].endpoint = "clusters"
                /\ log[1].id = op.backend_id[1]

\* a whitespace-only backend ID: nothing is sent
C9_Witness ==
    /\ op.name = "delete_resource"
    /\ resource_type = "cluster"
    /\ op.backend_id = Some(<<" ">>)
    /\ log = <<>>
    /\ ret = Returned(None)

-----------------------------------------------------------------------------
(* The identity service, as the typed endpoint methods see it.  A world i  *)
(* holds the listing of the organization's users and the listing of the    *)
(* groups.  The service gives a created user or group the next free id.    *)

Identity == [users |-> users, groups |-> groups]

UserDoc(id, subject) ==
    [metadata |-> [id |-> id], spec |-> [subject |-> subject, state |-> "active"]]

GroupDoc(id, name, userIds) ==
    [metadata |-> [id |-> id, name |-> name], spec |-> [userIds |-> userIds]]

list_organization_users(i, fault) == ReadAnswer(TRUE, i.users, fault)

list_groups(i, fault) == ReadAnswer(TRUE, i.groups, fault)

\* GET .../users/{user_id}: the user of that id, if the service holds one
get_user(i, user_id, fault) ==
    LET held == {k \in DOMAIN i.users : i.users[k].metadata.id = user_id}
    IN  ReadAnswer(held # {},
                   IF held # {} THEN i.users[CHOOSE k \in held : TRUE] ELSE None,
                   fault)

create_user(i, user_data, fault) ==
    LET doc == UserDoc(Len(i.users) + 1, user_data.spec.subject)
    IN  [answer |-> WriteAnswer(TRUE, fault),
         doc    |-> doc,
         world  |-> IF fault = "error" THEN i
                    ELSE [i EXCEPT !.users = Append(i.users, doc)]]

create_group(i, group_data, fault) ==
    LET doc == GroupDoc(Len(i.groups) + 1, group_data.metadata.name,
                        group_data.spec.userIds)
    IN  [answer |-> WriteAnswer(TRUE, fault),
         doc    |-> doc,
         world  |-> IF fault = "error" THEN i
                    ELSE [i EXCEPT !.groups = Append(i.groups, doc)]]

update_group(i, group_id, group_data, fault) ==
    LET held == {k \in DOMAIN i.groups : i.groups[k].metadata.id = group_id}
    IN  [answer |-> WriteAnswer(held # {}, fault),
         world  |-> IF fault = "error" THEN i
                    ELSE [i EXCEPT !.groups =
                              [k \in DOMAIN i.groups |->
                                  IF k \in held
                                  THEN [i.groups[k] EXCEPT !.spec.userIds =
                                            group_data.spec.userIds]
                                  ELSE i.groups[k]]]]

-----------------------------------------------------------------------------
(* Client: user associations *)

\* a client that treats the identity service as always configured
IdentityDisabled_Never == FALSE

\* not self.identity_api_url
IdentityDisabled == identity_api_url = None

\* str.endswith(suffix)
EndsWith(str, suffix) ==
    /\ Len(suffix) <= Len(str)
    /\ SubSeq(str, Len(str) - Len(suffix) + 1, Len(str)) = suffix

\* the first item of a listing at one of the positions hits, or None
FirstMatch(listing, hits) ==
    IF hits = {} THEN None
    ELSE Some(listing[CHOOSE k \in hits : \A m \in hits : k <= m])

\* a remove that leaves the list as it is
RemoveFirst_Keep(list, x) == list

\* list.remove(x): the list without its first x
RemoveFirst(list, x) ==
    LET k == CHOOSE k \in DOMAIN list :
                 list[k] = x /\ \A m \in DOMAIN list : list[m] = x => k <= m
    IN  SubSeq(list, 1, k - 1) \o SubSeq(list, k + 1, Len(list))

\* the handlers of the two find helpers ("except NscaleAPIError:")
FindExceptClause == "NscaleAPIError"

\* NscaleClient._find_user_by_username
_find_user_by_username(i, username, fault) ==
    LET r   == list_organization_users(i, fault)
        x   == Exch("GET", "users", <<>>, r.kind)
        exc == FetchRaises(r)
        HasSubject(user) == user.spec.subject = username
    IN  IF exc = "none"
        THEN [ret |-> Returned(FirstMatch(r.doc, {k \in DOMAIN r.doc :
                                                     HasSubject(r.doc[k])})),
              log |-> <<x>>]
        ELSE IF Catches(FindExceptClause, exc) THEN [ret |-> Returned(None), log |-> <<x>>]
        ELSE [ret |-> Raised(exc), log |-> <<x>>]

\* NscaleClient._find_project_group
_find_project_group(i, resource_id, fault) ==
    LET r   == list_groups(i, fault)
        x   == Exch("GET", "groups", <<>>, r.kind)
        exc == FetchRaises(r)
        NamedFor(group) == EndsWith(group.metadata.name, resource_id)
    IN  IF exc = "none"
        THEN [ret |-> Returned(FirstMatch(r.doc, {k \in DOMAIN r.doc :
                                                     NamedFor(r.doc[k])})),
              log |-> <<x>>]
        ELSE IF Catches(FindExceptClause, exc) THEN [ret |-> Returned(None), log |-> <<x>>]
        ELSE [ret |-> Raised(exc), log |-> <<x>>]

\* the ways a call of a find helper can go, one for each fault
FindUser(i, username) ==
    {_find_user_by_username(i, username, fault) : fault \in ReadFaults}

FindGroup(i, resource_id) ==
    {_find_project_group(i, resource_id, fault) : fault \in ReadFaults}

\* what a write method gives its caller: None, or the API error
WriteResult(answer, value) ==
    IF answer = "ok" THEN Returned(value) ELSE Raised(WriteRaises(answer))

Association(user, account) == [user |-> user, account |-> account]

\* a membership test that every user passes
InUserIds_Always(user_id, user_ids) == TRUE

\* user_id in user_ids
InUserIds(user_id, user_ids) == user_id \in Range(user_ids)

\* NscaleClient.get_association, from the group lookup on
GetAssociationOfUser(i, user, resource_id, nscale_user, sent) ==
    {IF g.ret.raised # "none" THEN Outcome(g.ret, sent \o g.log, i)
     ELSE IF g.ret.value = None THEN Outcome(Returned(None), sent \o g.log, i)
     ELSE IF InUserIds(nscale_user.metadata.id, g.ret.value[1].spec.userIds)
          THEN Outcome(Returned(Some(Association(user, resource_id))),
                       sent \o g.log, i)
     ELSE Outcome(Returned(None), sent \o g.log, i) :
        g \in FindGroup(i, resource_id)}

\* NscaleClient.get_association: the set of its possible outcomes
get_association(i, user, resource_id) ==
    IF IdentityDisabled THEN {Outcome(Returned(None), <<>>, i)}
    ELSE UNION {IF u.ret.raised # "none" THEN {Outcome(u.ret, u.log, i)}
                ELSE IF u.ret.value = None THEN {Outcome(Returned(None), u.log, i)}
                ELSE GetAssociationOfUser(i, user, resource_id, u.ret.value[1], u.log) :
                    u \in FindUser(i, user)}

\* create_association once the group was found: the user is appended to
\* its list unless the list holds it
AddToGroup(i, username, group, user_id, sent) ==
    IF user_id \in Range(group.spec.userIds) THEN {Outcome(Returned(username), sent, i)}
    ELSE {LET updated == update_group(i, group.metadata.id,
                             [spec |-> [userIds |->
                                 Append(group.spec.userIds, user_id)]], fault)
          IN  Outcome(WriteResult(updated.answer, username),
                      Append(sent, Exch("PUT", "groups", group.metadata.id,
                                        updated.answer)),
                      updated.world) : fault \in WriteFaults}

\* create_association once no group was found: the group is created
CreateGroupFor(i, username, resource_id, user_id, sent) ==
    {LET created == create_group(i, [metadata |-> [name |-> resource_id],
                                     spec |-> [userIds |-> <<user_id>>]], fault)
     IN  Outcome(WriteResult(created.answer, username),
                 Append(sent, Exch("POST", "groups", <<>>, created.answer)),
                 created.world) : fault \in WriteFaults}

\* create_association from the group lookup on
EnsureMembership(i, username, resource_id, user_id, sent) ==
    UNION {IF g.ret.raised # "none" THEN {Outcome(g.ret, sent \o g.log, i)}
           ELSE IF g.ret.value = None
                THEN CreateGroupFor(i, username, resource_id, user_id, sent \o g.log)
           ELSE AddToGroup(i, username, g.ret.value[1], user_id, sent \o g.log) :
               g \in FindGroup(i, resource_id)}

\* create_association once no user was found: the user is created
CreateUserFor(i, username, resource_id, sent) ==
    UNION {LET created == create_user(i, [spec |-> [subject |-> username,
                                                    state |-> "active"]], fault)
               log2    == Append(sent, Exch("POST", "users", <<>>, created.answer))
           IN  IF created.answer # "ok"
               THEN {Outcome(Raised(WriteRaises(created.answer)), log2, created.world)}
               ELSE EnsureMembership(created.world, username, resource_id,
                                     created.doc.metadata.id, log2) :
               fault \in WriteFaults}

\* NscaleClient.create_association: the set of its possible outcomes
create_association(i, username, resource_id) ==
    IF IdentityDisabled THEN {Outcome(Returned(username), <<>>, i)}
    ELSE UNION {IF u.ret.raised # "none" THEN {Outcome(u.ret, u.log, i)}
                ELSE IF u.ret.value = None
                     THEN CreateUserFor(i, username, resource_id, u.log)
                ELSE EnsureMembership(i, username, resource_id,
                                      u.ret.value[1].metadata.id, u.log) :
                    u \in FindUser(i, username)}

\* delete_association once the group was found: the user is removed from
\* its list if the list holds it
RemoveFromGroup(i, username, group, user_id, sent) ==
    IF user_id \notin Range(group.spec.userIds)
    THEN {Outcome(Returned(username), sent, i)}
    ELSE {LET updated == update_group(i, group.metadata.id,
                             [spec |-> [userIds |->
                                 RemoveFirst(group.spec.userIds, user_id)]], fault)
          IN  Outcome(WriteResult(updated.answer, username),
                      Append(sent, Exch("PUT", "groups", group.metadata.id,
                                        updated.answer)),
                      updated.world) : fault \in WriteFaults}

\* delete_association from the group lookup on
DeleteAssociationOfUser(i, username, resource_id, user_id, sent) ==
    UNION {IF g.ret.raised # "none" THEN {Outcome(g.ret, sent \o g.log, i)}
           ELSE IF g.ret.value = None
                THEN {Outcome(Returned(username), sent \o g.log, i)}
           ELSE RemoveFromGroup(i, username, g.ret.value[1], user_id,
                                sent \o g.log) :
               g \in FindGroup(i, resource_id)}

\* NscaleClient.delete_association: the set of its possible outcomes
delete_association(i, username, resource_id) ==
    IF IdentityDisabled THEN {Outcome(Returned(username), <<>>, i)}
    ELSE UNION {IF u.ret.raised # "none" THEN {Outcome(u.ret, u.log, i)}
                ELSE IF u.ret.value = None THEN {Outcome(Returned(username), u.log, i)}
                ELSE DeleteAssociationOfUser(i, username, resource_id,
                                             u.ret.value[1].metadata.id, u.log) :
                    u \in FindUser(i, username)}

\* the handler of the user lookups of list_resource_users
ResolveExceptClause == "Exception"

\* the loop of list_resource_users from position k of user_ids on
RECURSIVE ResolveUsers(_, _, _, _, _)
ResolveUsers(i, user_ids, k, usernames, sent) ==
    IF k > Len(user_ids) THEN {Outcome(Returned(usernames), sent, i)}
    ELSE UNION {LET r    == get_user(i, user_ids[k], fault)
                    exc  == FetchRaises(r)
                    log2 == Append(sent, Exch("GET", "users", user_ids[k], r.kind))
                IN  IF exc = "none"
                    THEN ResolveUsers(i, user_ids, k + 1,
                                      Append(usernames, r.doc.spec.subject), log2)
                    ELSE IF Catches(ResolveExceptClause, exc)
                         THEN ResolveUsers(i, user_ids, k + 1, usernames, log2)
                    ELSE {Outcome(Raised(exc), log2, i)} :
                    fault \in ReadFaults}

\* NscaleClient.list_resource_users: the set of its possible outcomes
list_resource_users(i, resource_id) ==
    IF IdentityDisabled THEN {Outcome(Returned(<<>>), <<>>, i)}
    ELSE UNION {IF g.ret.raised # "none" THEN {Outcome(g.ret, g.log, i)}
                ELSE IF g.ret.value = None THEN {Outcome(Returned(<<>>), g.log, i)}
                ELSE ResolveUsers(i, g.ret.value[1].spec.userIds, 1, <<>>, g.log) :
                    g \in FindGroup(i, resource_id)}

-----------------------------------------------------------------------------
(* SpecAssoc: user associations against the identity service *)

Usernames == {"u", "v"}

\* Resource IDs, one of them a suffix of the other.
ResourceIds == {<<"a">>, <<"b", "a">>}

InitAssoc ==
    /\ backend_components = <<>>
    /\ resource_type = "instance"
    /\ identity_api_url \in {None, Some("identity_api_url")}
    /\ instances = <<>>
    /\ clusters = {}
    /\ users = <<>>
    /\ groups = <<>>
    /\ op = NoOp
    /\ ret = Returned(None)
    /\ log = <<>>

\* the effect of an operation on the variables; the identity service holds
\* at most MaxUsers users and MaxGroups groups, MaxDocs documents in all
ApplyAssoc(call, out) ==
    /\ Len(out.world.users) <= MaxUsers
    /\ Len(out.world.groups) <= MaxGroups
    /\ Len(out.world.users) + Len(out.world.groups) <= MaxDocs
    /\ op' = call
    /\ ret' = out.ret
    /\ log' = out.log
    /\ users' = out.world.users
    /\ groups' = out.world.groups
    /\ UNCHANGED <<config, provider>>

GetAssociation ==
    \E user \in Usernames, resource_id \in ResourceIds :
        \E out \in get_association(Identity, user, resource_id) :
            ApplyAssoc([name |-> "get_association", user |-> user,
                        resource_id |-> resource_id], out)

CreateAssociation ==
    \E user \in Usernames, resource_id \in ResourceIds :
        \E out \in create_association(Identity, user, resource_id) :
            ApplyAssoc([name |-> "create_association", user |-> user,
                        resource_id |-> resource_id], out)

DeleteAssociation ==
    \E user \in Usernames, resource_id \in ResourceIds :
        \E out \in delete_association(Identity, user, resource_id) :
            ApplyAssoc([name |-> "delete_association", user |-> user,
                        resource_id |-> resource_id], out)

ListResourceUsers ==
    \E resource_id \in ResourceIds :
        \E out \in list_resource_users(Identity, resource_id) :
            ApplyAssoc([name |-> "list_resource_users",
                        resource_id |-> resource_id], out)

NextAssoc ==
    \/ GetAssociation
    \/ CreateAssociation
    \/ DeleteAssociation
    \/ ListResourceUsers

SpecAssoc == InitAssoc /\ [][NextAssoc]_vars

-----------------------------------------------------------------------------
(* Claims on the associations, checked under SpecAssoc *)

IsIdentityWrite(e) == e.method \in {"POST", "PUT", "DELETE"}

\* C10: create_association(user, resource) called again with the same
\* arguments after it returned is idempotent: the second call changes no
\* membership list, issues no group-update, group-create or user-create
\* request, and leaves the users and the groups as they were.
C10_SecondCreateIsIdempotent ==
    [][(/\ op.name = "create_association"
        /\ ret.raised = "none"
        /\ op' = op)
           => /\ users' = users
              /\ groups' = groups
              /\ \A k \in DOMAIN log' : ~IsIdentityWrite(log'[k])]_vars

\* the positions of the listed users whose subject is username
SubjectUsers(us, username) == {k \in DOMAIN us : us[k].spec.subject = username}

\* the positions of the listed groups whose name ends with resource_id
ResourceGroups(gs, resource_id) ==
    {k \in DOMAIN gs : EndsWith(gs[k].metadata.name, resource_id)}

First(S) == CHOOSE k \in S : \A m \in S : k <= m

\* the first user of that subject has its ID in the userIds of the first
\* group whose name ends with resource_id
IsMemberIn(us, gs, username, resource_id) ==
    LET uu == SubjectUsers(us, username)
        gg == ResourceGroups(gs, resource_id)
    IN  /\ uu # {}
        /\ gg # {}
        /\ us[First(uu)].metadata.id \in Range(gs[First(gg)].spec.userIds)

\* every request of the last operation was answered with its document
AllAnswered == \A k \in DOMAIN log : log[k].answer = "ok"

\* every request of the last operation was answered or failed with an API
\* error
NoneMalformed == \A k \in DOMAIN log : log[k].answer \in {"ok", "api_error"}

GetAssociationCalled ==
    op.name = "get_association" /\ identity_api_url # None

TheAssociation == Returned(Some(Association(op.user, op.resource_id)))

\* C11 as stated: with the identity service configured, get_association
\* returns Association(user, resource_id) if and only if the user of that
\* subject has its ID in userIds of the group whose name ends with
\* resource_id, and returns None otherwise.
C11_AssociationIffMember ==
    GetAssociationCalled =>
        IF IsMemberIn(users, groups, op.user, op.resource_id)
        THEN ret = TheAssociation
        ELSE ret = Returned(None)

\* C11 amended: get_association returns Association(user, resource_id) if
\* and only if both listings were answered and the user of that subject has
\* its ID in userIds of the group whose name ends with resource_id; it
\* returns None when the user is not found, the group is not found, the ID
\* is not a member, or a listing fails with an API error.
C11_AssociationIffMemberAnswered ==
    GetAssociationCalled =>
        LET member == IsMemberIn(users, groups, op.user, op.resource_id)
        IN  /\ ret = TheAssociation <=> (member /\ AllAnswered)
            /\ (NoneMalformed /\ ~(member /\ AllAnswered)) => ret = Returned(None)

\* get_association found the second listed user in a group
C11_Witness ==
    /\ GetAssociationCalled
    /\ ret = TheAssociation
    /\ Len(users) = 2
    /\ First(SubjectUsers(users, op.user)) = 2

\* C12: delete_association removes the user's ID from the userIds of the
\* resource's group and sends one group update when the ID is present; when
\* the user is unknown, the group is missing or the ID is not in the list
\* it issues no mutating request and changes nothing; in all these cases it
\* returns the username.
C12_DeleteAssociationFrame ==
    [][op'.name = "delete_association" =>
          LET writes == {k \in DOMAIN log' : IsIdentityWrite(log'[k])}
              gg     == ResourceGroups(groups, op'.resource_id)
              uu     == SubjectUsers(users, op'.user)
          IN  /\ ret' = Returned(op'.user)
              /\ users' = users
              /\ IF IsMemberIn(users, groups, op'.user, op'.resource_id)
                 THEN /\ Cardinality(writes) = 1
                      /\ \A k \in writes : log'[k].method = "PUT"
                      /\ groups' = [groups EXCEPT ![First(gg)].spec.userIds =
                                       RemoveFirst(@, users[First(uu)].metadata.id)]
                 ELSE /\ writes = {}
                      /\ groups' = groups]_vars

\* C13: when no identity base URL was configured, list_resource_users
\* returns [], get_association returns None, and create_association and
\* delete_association return the username; none of them raises and none
\* of them issues a request.
C13_NoIdentityNoRequest ==
    identity_api_url = None =>
        /\ op.name = "list_resource_users" => ret = Returned(<<>>)
        /\ op.name = "get_association" => ret = Returned(None)
        /\ op.name \in {"create_association", "delete_association"}
               => ret = Returned(op.user)
        /\ log = <<>>
        /\ users = <<>>
        /\ groups = <<>>

\* create_association was called without an identity base URL
C13_Witness ==
    /\ identity_api_url = None
    /\ op.name = "create_association"
    /\ ret = Returned(op.user)

\* C20: create_association issues a create-user request only when no
\* organization user has the username as its subject, a create-group
\* request only when no group whose name ends with the resource ID exists,
\* and a group update only when such a group exists.
C20_CreatesOnlyWhenAbsent ==
    [][op'.name = "create_association" =>
          LET Sent(method, endpoint) ==
                  \E k \in DOMAIN log' :
                      log'[k].method = method /\ log'[k].endpoint = endpoint
          IN  /\ Sent("POST", "users") => SubjectUsers(users, op'.user) = {}
              /\ Sent("POST", "groups")
                     => ResourceGroups(groups, op'.resource_id) = {}
              /\ Sent("PUT", "groups")
                     => ResourceGroups(groups, op'.resource_id) # {}]_vars

\* the identity service after the step
IdentityAfter == [users |-> users', groups |-> groups']

\* what the calls of a query can give, over all the ways its requests go
Results(outs) == {out.ret : out \in outs}

\* what the calls of a query give when every request is answered
AnsweredResults(outs) ==
    {out.ret : out \in {x \in outs : \A k \in DOMAIN x.log : x.log[k].answer = "ok"}}

\* C25: associations of distinct resources do not interfere: for resource
\* IDs r1 # r2 (one may be a suffix of the other) and any user u,
\* create_association(u, r1) and delete_association(u, r1) never change the
\* result of get_association(u, r2) or of list_resource_users(r2), and
\* never modify a group that was created for r2.
C25_DistinctResourcesIndependent ==
    [][op'.name \in {"create_association", "delete_association"} =>
          \A r2 \in ResourceIds \ {op'.resource_id} :
              /\ \A u \in Usernames :
                     Results(get_association(IdentityAfter, u, r2))
                         = Results(get_association(Identity, u, r2))
              /\ Results(list_resource_users(IdentityAfter, r2))
                     = Results(list_resource_users(Identity, r2))
              /\ \A k \in DOMAIN groups :
                     groups[k].metadata.name = r2 => groups'[k] = groups[k]]_vars

\* an association call returned, with every request of it answered
AssociationDone(name) ==
    /\ op.name = name
    /\ ret = Returned(op.user)
    /\ AllAnswered
    /\ ~IdentityDisabled

\* C26: with every HTTP call succeeding, after create_association(u, r)
\* returns, get_association(u, r) returns Association(u, r) and
\* list_resource_users(r) contains u; after delete_association(u, r)
\* returns, get_association(u, r) returns None.
C26_AssociationRoundTrip ==
    /\ AssociationDone("create_association") =>
           /\ AnsweredResults(get_association(Identity, op.user, op.resource_id))
                  = {Returned(Some(Association(op.user, op.resource_id)))}
           /\ \A r \in AnsweredResults(list_resource_users(Identity, op.resource_id)) :
                  r.raised = "none" /\ op.user \in Range(r.value)
           /\ AnsweredResults(list_resource_users(Identity, op.resource_id)) # {}
    /\ AssociationDone("delete_association") =>
           AnsweredResults(get_association(Identity, op.user, op.resource_id))
               = {Returned(None)}

\* delete_association removed the user from the group of the resource
C26_Witness ==
    /\ AssociationDone("delete_association")
    /\ Len(log) = 3
    /\ log[3].method = "PUT"
    /\ \E k \in DOMAIN groups :
           groups[k].metadata.name = op.resource_id /\ groups[k].spec.userIds = <<>>

\* no item of the list occurs twice
NoDuplicates(list) ==
    \A j, k \in DOMAIN list : list[j] = list[k] => j = k

\* C27: from a state with at most one user per subject, at most one group
\* per resource ID and no duplicate IDs in any userIds list, every sequence
\* of create_association and delete_association calls, any HTTP call of
\* which may fail, keeps at most one user per subject, at most one group
\* per resource ID and no ID twice in a userIds list.
C27_IdentityUniqueness ==
    /\ \A j, k \in DOMAIN users :
           users[j].spec.subject = users[k].spec.subject => j = k
    /\ \A j, k \in DOMAIN groups :
           groups[j].metadata.name = groups[k].metadata.name => j = k
    /\ \A k \in DOMAIN groups : NoDuplicates(groups[k].spec.userIds)

-----------------------------------------------------------------------------
(* Client: the typed identity endpoints, called directly *)

\* PUT .../users/{user_id}: the user's state is set
update_user(i, user_id, user_data, fault) ==
    LET held == {k \in DOMAIN i.users : i.users[k].metadata.id = user_id}
    IN  [answer |-> WriteAnswer(held # {}, fault),
         world  |-> IF fault = "error" THEN i
                    ELSE [i EXCEPT !.users =
                              [k \in DOMAIN i.users |->
                                  IF k \in held
                                  THEN [i.users[k] EXCEPT !.spec.state =
                                            user_data.spec.state]
                                  ELSE i.users[k]]]]

\* the listing without the documents of that id
WithoutId(listing, id) ==
    LET kept == {k \in DOMAIN listing : listing[k].metadata.id # id}
        F[k \in 0..Len(listing)] ==
            IF k = 0 THEN <<>>
            ELSE IF k \in kept THEN Append(F[k - 1], listing[k]) ELSE F[k - 1]
    IN  F[Len(listing)]

\* DELETE .../users/{user_id}
delete_user(i, user_id, fault) ==
    LET held == {k \in DOMAIN i.users : i.users[k].metadata.id = user_id}
    IN  [answer |-> WriteAnswer(held # {}, fault),
         world  |-> IF fault = "error" THEN i
                    ELSE [i EXCEPT !.users = WithoutId(i.users, user_id)]]

\* GET .../groups/{group_id}
get_group(i, group_id, fault) ==
    LET held == {k \in DOMAIN i.groups : i.groups[k].metadata.id = group_id}
    IN  ReadAnswer(held # {},
                   IF held # {} THEN i.groups[CHOOSE k \in held : TRUE] ELSE None,
                   fault)

\* DELETE .../groups/{group_id}
delete_group(i, group_id, fault) ==
    LET held == {k \in DOMAIN i.groups : i.groups[k].metadata.id = group_id}
    IN  [answer |-> WriteAnswer(held # {}, fault),
         world  |-> IF fault = "error" THEN i
                    ELSE [i EXCEPT !.groups = WithoutId(i.groups, group_id)]]

\* raise NscaleAPIError("Identity API URL not configured. ...")
IdentityNotConfigured ==
    [raised |-> "NscaleAPIError", value |-> None, cause |-> "none",
     message |-> "Identity API URL not configured"]

\* raise NscaleAPIError(f"API request failed: ...") from e
RequestFailed == RaisedFrom("NscaleAPIError", "RequestException")

\* a guard that lets every request through
IdentityUrlMissing_Never == FALSE

\* not self.identity_api_url, the guard of _identity_request
IdentityUrlMissing == identity_api_url = None

\* NscaleClient._identity_request: the guard, then the request.  served is
\* what the identity service makes of the request: its answer, the
\* document of a read, and the world after.
_identity_request(i, method, endpoint, id, served) ==
    IF IdentityUrlMissing THEN Outcome(IdentityNotConfigured, <<>>, i)
    ELSE LET sent == <<Exch(method, endpoint, id, served.answer)>>
         IN  IF served.answer = "api_error"
             THEN Outcome(RequestFailed, sent, served.world)
             ELSE Outcome(Returned(served.doc), sent, served.world)

\* what the service makes of a read
Read(i, resp) ==
    [answer |-> resp.kind, doc |-> resp, world |-> i]

\* what the service makes of a write without a document in its answer
Written(w) == [answer |-> w.answer, doc |-> None, world |-> w.world]

\* A typed identity endpoint method called with arguments call under an
\* environment fault.
IdentityEndpoint(i, call, fault) ==
    CASE call.name = "list_organization_users" ->
            _identity_request(i, "GET", "users", <<>>,
                              Read(i, list_organization_users(i, fault)))
      [] call.name = "get_user" ->
            _identity_request(i, "GET", "users", call.id,
                              Read(i, get_user(i, call.id, fault)))
      [] call.name = "create_user" ->
            _identity_request(i, "POST", "users", <<>>,
                              create_user(i, call.data, fault))
      [] call.name = "update_user" ->
            _identity_request(i, "PUT", "users", call.id,
                              Written(update_user(i, call.id, call.data, fault)))
      [] call.name = "delete_user" ->
            _identity_request(i, "DELETE", "users", call.id,
                              Written(delete_user(i, call.id, fault)))
      [] call.name = "list_groups" ->
            _identity_request(i, "GET", "groups", <<>>,
                              Read(i, list_groups(i, fault)))
      [] call.name = "get_group" ->
            _identity_request(i, "GET", "groups", call.id,
                              Read(i, get_group(i, call.id, fault)))
      [] call.name = "create_group" ->
            _identity_request(i, "POST", "groups", <<>>,
                              create_group(i, call.data, fault))
      [] call.name = "update_group" ->
            _identity_request(i, "PUT", "groups", call.id,
                              Written(update_group(i, call.id, call.data, fault)))
      [] call.name = "delete_group" ->
            _identity_request(i, "DELETE", "groups", call.id,
                              Written(delete_group(i, call.id, fault)))

-----------------------------------------------------------------------------
(* SpecIdentity: one call of a typed identity endpoint *)

IdentityIds == {1, 2}

IdentityReads == {"list_organization_users", "get_user", "list_groups", "get_group"}

IdentityWrites ==
    {"create_user", "update_user", "delete_user",
     "create_group", "update_group", "delete_group"}

\* The calls of the typed identity endpoints.
IdentityCalls ==
    {[name |-> n] : n \in {"list_organization_users", "list_groups"}}
    \cup {[name |-> n, id |-> id] :
             n \in {"get_user", "delete_user", "get_group", "delete_group"},
             id \in IdentityIds}
    \cup {[name |-> "create_user",
           data |-> [spec |-> [subject |-> u, state |-> "active"]]] :
             u \in Usernames}
    \cup {[name |-> "update_user", id |-> id,
           data |-> [spec |-> [state |-> "suspended"]]] : id \in IdentityIds}
    \cup {[name |-> "create_group",
           data |-> [metadata |-> [name |-> r], spec |-> [userIds |-> <<1>>]]] :
             r \in ResourceIds}
    \cup {[name |-> "update_group", id |-> id,
           data |-> [spec |-> [userIds |-> ids]]] :
             id \in IdentityIds, ids \in {<<>>, <<1>>}}

\* SpecIdentity starts with the client constructed, the identity service
\* holding some users and groups, and one call made.
InitIdentity ==
    /\ backend_components = <<>>
    /\ resource_type = "instance"
    /\ identity_api_url \in {None, Some("identity_api_url")}
    /\ instances = <<>>
    /\ clusters = {}
    /\ users \in {<<>>, <<UserDoc(1, "u")>>, <<UserDoc(1, "u"), UserDoc(2, "v")>>}
    /\ groups \in {<<>>, <<GroupDoc(1, <<"a">>, <<1>>)>>}
    /\ op \in IdentityCalls
    /\ ret = Pending
    /\ log = <<>>

\* the call runs to completion
ApplyIdentity(out) ==
    /\ ret' = out.ret
    /\ log' = out.log
    /\ users' = out.world.users
    /\ groups' = out.world.groups
    /\ UNCHANGED <<config, provider, op>>

IdentityRead ==
    /\ ret = Pending
    /\ op.name \in IdentityReads
    /\ \E fault \in ReadFaults :
           ApplyIdentity(IdentityEndpoint(Identity, op, fault))

IdentityWrite ==
    /\ ret = Pending
    /\ op.name \in IdentityWrites
    /\ \E fault \in WriteFaults :
           ApplyIdentity(IdentityEndpoint(Identity, op, fault))

NextIdentity == IdentityRead \/ IdentityWrite

SpecIdentity == InitIdentity /\ [][NextIdentity]_vars

-----------------------------------------------------------------------------
(* Claims on the typed identity endpoints, checked under SpecIdentity *)

\* C14: every typed identity call raises the 'Identity API URL not
\* configured' API error when no identity base URL was supplied, before any
\* request is attempted: no request is sent and the service is untouched.
C14_IdentityCallsFailFast ==
    (identity_api_url = None /\ ret # Pending) =>
        /\ ret = IdentityNotConfigured
        /\ log = <<>>

\* a typed write was called without an identity base URL
C14_Witness ==
    /\ identity_api_url = None
    /\ op.name = "delete_group"
    /\ ret = IdentityNotConfigured

-----------------------------------------------------------------------------
(* The provider's compute and region services: listings, updates, power *)

\* the order in which the provider lists documents
ProviderOrder == << <<"a">>, <<"b">> >>

InstanceListing(w) ==
    LET Held(id) == id \in DOMAIN w.instances
        ids == SelectSeq(ProviderOrder, Held)
    IN  [k \in DOMAIN ids |-> InstanceDoc(w, ids[k])]

ClusterListing(w) ==
    LET Held(id) == id \in w.clusters
        ids == SelectSeq(ProviderOrder, Held)
    IN  [k \in DOMAIN ids |-> ClusterDoc(ids[k])]

get_compute_instances(w, fault) == ReadAnswer(TRUE, InstanceListing(w), fault)

get_compute_clusters(w, fault) == ReadAnswer(TRUE, ClusterListing(w), fault)

get_networks(w, fault) == ReadAnswer(TRUE, <<>>, fault)

\* PUT /api/v2/instances/{id}: the fields of the sent spec are set
update_compute_instance(w, id, instance_data, fault) ==
    [answer |-> WriteAnswer(id \in DOMAIN w.instances, fault),
     world  |-> IF fault = "error" \/ id \notin DOMAIN w.instances THEN w
                ELSE [w EXCEPT !.instances[id].spec = instance_data.spec @@ @]]

\* POST /api/v2/instances/{id}/stop
stop_instance(w, id, fault) ==
    [answer |-> WriteAnswer(id \in DOMAIN w.instances, fault),
     world  |-> IF fault = "error" \/ id \notin DOMAIN w.instances THEN w
                ELSE [w EXCEPT !.instances[id].running = FALSE]]

\* POST /api/v2/instances/{id}/start
start_instance(w, id, fault) ==
    [answer |-> WriteAnswer(id \in DOMAIN w.instances, fault),
     world  |-> IF fault = "error" \/ id \notin DOMAIN w.instances THEN w
                ELSE [w EXCEPT !.instances[id].running = TRUE]]

\* an HTTP exchange whose request carries a JSON body
ExchBody(method, endpoint, id, answer, body) ==
    [method |-> method, endpoint |-> endpoint, id |-> id, answer |-> answer,
     body |-> body]

-----------------------------------------------------------------------------
(* Client: listing, limits and usage of the generic contract *)

\* one pass over a listing: a record for each item
ResourceRecords(listing) == [k \in DOMAIN listing |-> ClientResource(listing[k])]

\* catching the API error alone in list_resources
ListExceptClause_Narrow == "NscaleAPIError"

\* the exception clause of both handlers of list_resources
ListExceptClause == "Exception"

\* one try block of list_resources: the records it appends, what escapes
ListedKind(resp) ==
    LET exc == FetchRaises(resp)
    IN  IF exc = "none" THEN [records |-> ResourceRecords(resp.doc), raised |-> "none"]
        ELSE IF Catches(ListExceptClause, exc) THEN [records |-> <<>>, raised |-> "none"]
        ELSE [records |-> <<>>, raised |-> exc]

\* NscaleClient.list_resources
list_resources(w, f1, f2) ==
    LET r1   == get_compute_instances(w, f1)
        log1 == <<Exch("GET", "instances", <<>>, r1.kind)>>
        k1   == ListedKind(r1)
        r2   == get_compute_clusters(w, f2)
        log2 == Append(log1, Exch("GET", "clusters", <<>>, r2.kind))
        k2   == ListedKind(r2)
    IN  IF k1.raised # "none" THEN Outcome(Raised(k1.raised), log1, w)
        ELSE IF k2.raised # "none" THEN Outcome(Raised(k2.raised), log2, w)
        ELSE Outcome(Returned(k1.records \o k2.records), log2, w)

\* a client that forwards the gpu limit as well
KnownLimitKeys_WithGpu == {"cpu", "memory", "storage", "gpu"}

\* the components set_resource_limits copies into the spec update
KnownLimitKeys == {"cpu", "memory", "storage"}

\* f"Limits set for {resource_id}"
LimitsSet(resource_id) == <<"Limits set for", resource_id>>

\* NscaleClient.set_resource_limits
set_resource_limits(w, resource_id, limits_dict, fault) ==
    LET spec == [c \in DOMAIN limits_dict \cap KnownLimitKeys |-> limits_dict[c]]
        instance_data == [spec |-> spec]
        u    == update_compute_instance(w, resource_id, instance_data, fault)
        sent == <<ExchBody("PUT", "instances", resource_id, u.answer, instance_data)>>
        exc  == WriteRaises(u.answer)
    IN  IF DOMAIN spec = {} THEN Outcome(Returned(LimitsSet(resource_id)), <<>>, w)
        ELSE IF exc # "none" THEN Outcome(Raised(exc), sent, u.world)
        ELSE Outcome(Returned(LimitsSet(resource_id)), sent, u.world)

\* NscaleClient._extract_instance_specs
_extract_instance_specs(instance) ==
    [c \in {"cpu", "memory", "storage"} |->
        Get(Get(instance, "spec", <<>>), c, Get(instance, c, 0))]

\* NscaleClient.get_resource_limits
get_resource_limits(w, resource_id, fault) ==
    LET r    == get_compute_instance(w, resource_id, fault)
        sent == <<Exch("GET", "instances", resource_id, r.kind)>>
        exc  == FetchRaises(r)
    IN  IF exc = "none" THEN Outcome(Returned(_extract_instance_specs(r.doc)), sent, w)
        ELSE IF Catches("Exception", exc) THEN Outcome(Returned(<<>>), sent, w)
        ELSE Outcome(Raised(exc), sent, w)

\* the loop of NscaleClient.get_usage_report from position k on
RECURSIVE ClientUsageLoop(_, _, _, _, _, _)
ClientUsageLoop(w, resource_ids, faults, k, usage_data, sent) ==
    IF k > Len(resource_ids) THEN Outcome(Returned(usage_data), sent, w)
    ELSE LET r    == get_compute_instance(w, resource_ids[k], faults[k])
             log2 == Append(sent, Exch("GET", "instances", resource_ids[k], r.kind))
             exc  == FetchRaises(r)
         IN  IF exc = "none"
             THEN ClientUsageLoop(w, resource_ids, faults, k + 1,
                      Append(usage_data,
                             [resource_id |-> resource_ids[k],
                              specs |-> _extract_instance_specs(r.doc)]),
                      log2)
             ELSE IF Catches("Exception", exc)
                  THEN ClientUsageLoop(w, resource_ids, faults, k + 1, usage_data, log2)
             ELSE Outcome(Raised(exc), log2, w)

\* NscaleClient.get_usage_report
get_usage_report(w, resource_ids, faults) ==
    ClientUsageLoop(w, resource_ids, faults, 1, <<>>, <<>>)

-----------------------------------------------------------------------------
(* Backend adapter: health checks and lifecycle operations *)

\* a handler that never raises
PingFailure_NeverRaises(raise_exception, exc) == Returned(FALSE)

\* the handler of ping: raise BackendError(...) from e, or return False
PingFailure(raise_exception, exc) ==
    IF raise_exception THEN RaisedFrom("BackendError", exc) ELSE Returned(FALSE)

\* NscaleBackend.ping
ping(w, raise_exception, fault) ==
    LET r    == get_networks(w, fault)
        sent == <<Exch("GET", "networks", <<>>, r.kind)>>
        exc  == IF r.kind = "api_error" THEN "NscaleAPIError" ELSE "none"
    IN  IF exc = "none" THEN Outcome(Returned(TRUE), sent, w)
        ELSE IF Catches("Exception", exc)
             THEN Outcome(PingFailure(raise_exception, exc), sent, w)
        ELSE Outcome(Raised(exc), sent, w)

\* len() of a listing: a body that is no collection raises TypeError
LenRaises(resp) ==
    CASE resp.kind = "api_error" -> "NscaleAPIError"
      [] resp.kind = "malformed" -> "TypeError"
      [] OTHER -> "none"

\* NscaleBackend.diagnostics: the three listings are fetched, then counted
diagnostics(w, f1, f2, f3) ==
    LET r1   == get_networks(w, f1)
        r2   == get_compute_instances(w, f2)
        r3   == get_compute_clusters(w, f3)
        log1 == <<Exch("GET", "networks", <<>>, r1.kind)>>
        log2 == Append(log1, Exch("GET", "instances", <<>>, r2.kind))
        log3 == Append(log2, Exch("GET", "clusters", <<>>, r3.kind))
        counted == \A r \in {r1, r2, r3} : LenRaises(r) = "none"
    IN  IF r1.kind = "api_error" THEN Outcome(Returned(FALSE), log1, w)
        ELSE IF r2.kind = "api_error" THEN Outcome(Returned(FALSE), log2, w)
        ELSE Outcome(Returned(counted), log3, w)

\* a handler that lets the provider error through
LifecycleFailure_Reraised(exc) == Raised(exc)

\* the handler of the lifecycle operations: log and return False
LifecycleFailure(exc) ==
    IF Catches("Exception", exc) THEN Returned(FALSE) ELSE Raised(exc)

\* what a lifecycle operation makes of its one provider call
LifecycleResult(call, sent) ==
    LET exc == WriteRaises(call.answer)
    IN  IF exc = "none" THEN Outcome(Returned(TRUE), sent, call.world)
        ELSE Outcome(LifecycleFailure(exc), sent, call.world)

\* NscaleBackend.downscale_resource
downscale_resource(w, resource_backend_id, fault) ==
    LET c == stop_instance(w, resource_backend_id, fault)
    IN  LifecycleResult(c, <<Exch("POST", "stop", resource_backend_id, c.answer)>>)

\* NscaleBackend.pause_resource
pause_resource(w, resource_backend_id, fault) ==
    LET c == stop_instance(w, resource_backend_id, fault)
    IN  LifecycleResult(c, <<Exch("POST", "stop", resource_backend_id, c.answer)>>)

\* NscaleBackend.restore_resource
restore_resource(w, resource_backend_id, fault) ==
    LET c == start_instance(w, resource_backend_id, fault)
    IN  LifecycleResult(c, <<Exch("POST", "start", resource_backend_id, c.answer)>>)

\* NscaleBackend.get_resource_metadata
get_resource_metadata(w, resource_backend_id, fault) ==
    LET r    == get_compute_instance(w, resource_backend_id, fault)
        sent == <<Exch("GET", "instances", resource_backend_id, r.kind)>>
        exc  == FetchRaises(r)
    IN  IF exc = "none"
        THEN Outcome(Returned([instance_id |-> r.doc.metadata.id,
                               instance_name |-> r.doc.metadata.name,
                               specs |-> _extract_instance_specs(r.doc)]),
                     sent, w)
        ELSE IF Catches("Exception", exc) THEN Outcome(Returned(<<>>), sent, w)
        ELSE Outcome(Raised(exc), sent, w)

-----------------------------------------------------------------------------
(* SpecOps: operations on provisioned resources *)

\* the limits the host sets: none, unknown ones, known ones, all
LimitDicts ==
    {<<>>,
     [gpu |-> 1],
     [cpu |-> 2],
     [cpu |-> 2, gpu |-> 1],
     [memory |-> 3, storage |-> 1],
     [cpu |-> 1, memory |-> 2, storage |-> 1, gpu |-> 1]}

\* the states an instance is found in: as created, stopped with a cpu
\* limit, running with memory and storage limits
InstanceStates ==
    {[spec |-> <<>>, running |-> TRUE],
     [spec |-> [cpu |-> 2], running |-> FALSE],
     [spec |-> [memory |-> 3, storage |-> 1], running |-> TRUE]}

\* The calls the host makes on provisioned resources.
OpsCalls ==
    {[name |-> n] : n \in {"list_resources", "diagnostics"}}
    \cup {[name |-> "set_resource_limits", id |-> id, limits |-> limits] :
             id \in ProviderIds, limits \in LimitDicts}
    \cup {[name |-> n, id |-> id] :
             n \in {"get_resource_limits", "get_resource_metadata",
                    "downscale_resource", "pause_resource", "restore_resource"},
             id \in ProviderIds}
    \cup {[name |-> "get_usage_report", ids |-> ids] :
             ids \in SeqsUpTo(ProviderIds, 2)}
    \cup {[name |-> "ping", raise_exception |-> b] : b \in BOOLEAN}

\* SpecOps starts with the backend constructed, the provider holding some
\* instances and clusters, and one call made.
InitOps ==
    /\ backend_components = <<>>
    /\ resource_type = "instance"
    /\ identity_api_url = None
    /\ instances \in UNION {[S -> InstanceStates] : S \in SUBSET ProviderIds}
    /\ clusters \in SUBSET ProviderIds
    /\ users = <<>>
    /\ groups = <<>>
    /\ op \in OpsCalls
    /\ ret = Pending
    /\ log = <<>>

\* the call made is op.name, and has not returned
Called(name) == ret = Pending /\ op.name = name

ListResources ==
    /\ Called("list_resources")
    /\ \E f1, f2 \in ReadFaults :
           Apply(op, list_resources(World, f1, f2))

SetResourceLimits ==
    /\ Called("set_resource_limits")
    /\ \E fault \in WriteFaults :
           Apply(op, set_resource_limits(World, op.id, op.limits, fault))

GetResourceLimits ==
    /\ Called("get_resource_limits")
    /\ \E fault \in ReadFaults :
           Apply(op, get_resource_limits(World, op.id, fault))

ClientGetUsageReport ==
    /\ Called("get_usage_report")
    /\ \E faults \in [DOMAIN op.ids -> ReadFaults] :
           Apply(op, get_usage_report(World, op.ids, faults))

Ping ==
    /\ Called("ping")
    /\ \E fault \in ReadFaults :
           Apply(op, ping(World, op.raise_exception, fault))

Diagnostics ==
    /\ Called("diagnostics")
    /\ \E f1, f2, f3 \in ReadFaults :
           Apply(op, diagnostics(World, f1, f2, f3))

DownscaleResource ==
    /\ Called("downscale_resource")
    /\ \E fault \in WriteFaults :
           Apply(op, downscale_resource(World, op.id, fault))

PauseResource ==
    /\ Called("pause_resource")
    /\ \E fault \in WriteFaults :
           Apply(op, pause_resource(World, op.id, fault))

RestoreResource ==
    /\ Called("restore_resource")
    /\ \E fault \in WriteFaults :
           Apply(op, restore_resource(World, op.id, fault))

GetResourceMetadata ==
    /\ Called("get_resource_metadata")
    /\ \E fault \in ReadFaults :
           Apply(op, get_resource_metadata(World, op.id, fault))

NextOps ==
    \/ ListResources
    \/ SetResourceLimits
    \/ GetResourceLimits
    \/ ClientGetUsageReport
    \/ Ping
    \/ Diagnostics
    \/ DownscaleResource
    \/ PauseResource
    \/ RestoreResource
    \/ GetResourceMetadata

SpecOps == InitOps /\ [][NextOps]_vars

-----------------------------------------------------------------------------
(* Claims on the operations on provisioned resources, checked under SpecOps *)

\* the call op.name has returned or raised
Done(name) == op.name = name /\ ret # Pending

\* C15: set_resource_limits forwards only cpu, memory and storage: its
\* spec-update request holds exactly those of the three keys that are
\* present in limits, with their values; other components are ignored;
\* when none of the three is present no request is sent; on success it
\* returns 'Limits set for <id>'.
C15_SetLimitsForwardsKnown ==
    Done("set_resource_limits") =>
        LET known == DOMAIN op.limits \cap {"cpu", "memory", "storage"}
        IN  IF known = {}
            THEN log = <<>> /\ ret = Returned(<<"Limits set for", op.id>>)
            ELSE /\ Len(log) = 1
                 /\ log[1].method = "PUT"
                 /\ log[1].endpoint = "instances"
                 /\ log[1].id = op.id
                 /\ DOMAIN log[1].body = {"spec"}
                 /\ DOMAIN log[1].body.spec = known
                 /\ \A c \in known : log[1].body.spec[c] = op.limits[c]
                 /\ log[1].answer = "ok"
                        => ret = Returned(<<"Limits set for", op.id>>)

\* limits with cpu and gpu were set: the update was sent and answered
C15_Witness ==
    /\ Done("set_resource_limits")
    /\ DOMAIN op.limits = {"cpu", "gpu"}
    /\ Len(log) = 1
    /\ log[1].answer = "ok"
    /\ instances[op.id].spec["cpu"] = op.limits["cpu"]

\* the records list_resources returns for a listing that was requested
\* with answer
Listed(answer, listing) == IF answer = "ok" THEN listing ELSE <<>>

C17_GenericMethodsNeverRaise ==
    (ret # Pending
     /\ op.name \in {"list_resources", "get_resource", "client.delete_resource",
                     "set_resource_limits", "get_resource_limits",
                     "get_usage_report", "get_association",
                     "create_association", "delete_association"})
        => ret.raised = "none"

\* C18: pause_resource and downscale_resource issue exactly one stop call
\* for the id, restore_resource exactly one start call; each returns True
\* iff that call succeeded, False otherwise, and never raises.
C18_LifecycleOneCall ==
    (ret # Pending
     /\ op.name \in {"pause_resource", "downscale_resource", "restore_resource"})
        => /\ Len(log) = 1
           /\ log[1].method = "POST"
           /\ log[1].endpoint =
                  (IF op.name = "restore_resource" THEN "start" ELSE "stop")
           /\ log[1].id = op.id
           /\ ret = Returned(log[1].answer = "ok")

\* a pause whose stop call failed returned False
C18_Witness ==
    /\ Done("pause_resource")
    /\ log[1].answer = "api_error"
    /\ ret = Returned(FALSE)

LifecycleHooks ==
    {"ping", "diagnostics", "pause_resource", "downscale_resource",
     "restore_resource", "get_resource_metadata"}

\* C19: ping returns True iff listing networks succeeds; when the listing
\* fails it returns False if raise_exception is false and raises a
\* BackendError chained to the failure if raise_exception is true; no
\* other lifecycle hook raises, and ping only when asked to.
C19_PingFailureMode ==
    /\ Done("ping") =>
           /\ Len(log) = 1
           /\ log[1].method = "GET" /\ log[1].endpoint = "networks"
           /\ ret = (IF log[1].answer # "api_error" THEN Returned(TRUE)
                     ELSE IF op.raise_exception
                          THEN RaisedFrom("BackendError", "NscaleAPIError")
                     ELSE Returned(FALSE))
    /\ (ret # Pending /\ op.name \in LifecycleHooks /\ ret.raised # "none")
           => op.name = "ping" /\ op.raise_exception

\* ping was asked to raise and the listing failed
C19_Witness ==
    /\ Done("ping")
    /\ op.raise_exception
    /\ ret.raised = "BackendError"

-----------------------------------------------------------------------------
(* Client: the request primitive and the parsing of responses.             *)
(* What session.request gives is chosen by the environment: a response     *)
(* (status code, Content-Type header, body) or a transport failure.  A     *)
(* body is its text together with what json() decodes it to, None when     *)
(* decoding raises ValueError.                                             *)

\* text[:n]
Prefix(text, n) == SubSeq(text, 1, IF Len(text) < n THEN Len(text) ELSE n)

\* sub in str
Contains(str, sub) ==
    \E k \in 0..(Len(str) - Len(sub)) : SubSeq(str, k + 1, k + Len(sub)) = sub

\* str.lower(), for the letters that occur in the headers below
LowerCase ==
    [A |-> "a", C |-> "c", I |-> "i", J |-> "j", L |-> "l", N |-> "n",
     O |-> "o", P |-> "p", S |-> "s", T |-> "t"]

Lower(str) ==
    [k \in DOMAIN str |->
        IF str[k] \in DOMAIN LowerCase THEN LowerCase[str[k]] ELSE str[k]]

\* e.response.text[:500]
ResponseBodyLimit == 500

ApplicationJson ==
    <<"a", "p", "p", "l", "i", "c", "a", "t", "i", "o", "n", "/",
      "j", "s", "o", "n">>

\* Response.raise_for_status(): HTTPError for a 4xx or 5xx status
raise_for_status(status_code) == 400 <= status_code /\ status_code < 600

\* NscaleAPIError(f"API request failed: {e}{response_details}") from e
RequestError(e, response_details) ==
    [raised |-> "NscaleAPIError", value |-> None, cause |-> e,
     message |-> response_details]

\* f" | Response Status: {status_code} | Response Body: {text[:500]}"
ResponseDetails(response) ==
    Some([status |-> response.status_code,
          body |-> Prefix(response.text, ResponseBodyLimit)])

\* NscaleClient._make_request, given what session.request does: a
\* response, or one of the RequestException classes ConnectionError and
\* Timeout; raise_for_status adds HTTPError
_make_request(outcome) ==
    IF outcome.kind # "response" THEN RequestError(outcome.kind, None)
    ELSE IF raise_for_status(outcome.status_code)
         THEN RequestError("HTTPError", ResponseDetails(outcome))
    ELSE Returned(outcome)

\* response.headers.get("content-type", "").lower()
ContentTypeOf(response) ==
    Lower(IF response.content_type = None THEN <<>> ELSE response.content_type[1])

ParseOrder_JsonFirst == <<"no_content", "empty", "decode", "content_type">>

\* the checks of _parse_json_response, in the order the code makes them
ParseOrder == <<"no_content", "empty", "content_type", "decode">>

\* what one check of _parse_json_response decides: a result, or Pending to
\* go on to the next check
ParseCheck(check, response) ==
    CASE check = "no_content" ->
            IF response.status_code = 204 THEN Returned(<<>>) ELSE Pending
      [] check = "empty" ->
            IF response.text = <<>> THEN Returned(<<>>) ELSE Pending
      [] check = "content_type" ->
            IF ~Contains(ContentTypeOf(response), ApplicationJson)
            THEN Raised("NscaleAPIError") ELSE Pending
      [] check = "decode" ->
            IF response.json = None
            THEN RaisedFrom("NscaleAPIError", "ValueError") ELSE Pending

RECURSIVE ParseFrom(_, _)
ParseFrom(k, response) ==
    IF k > Len(ParseOrder) THEN Returned(response.json[1])
    ELSE IF ParseCheck(ParseOrder[k], response) # Pending
         THEN ParseCheck(ParseOrder[k], response)
    ELSE ParseFrom(k + 1, response)

\* NscaleClient._parse_json_response
_parse_json_response(response) == ParseFrom(1, response)

\* a typed endpoint method that returns the parsed document, such as
\* get_compute_instance
TypedRead(outcome) ==
    LET response == _make_request(outcome)
    IN  IF response.raised # "none" THEN response
        ELSE _parse_json_response(response.value)

\* a typed endpoint method that returns nothing, such as
\* delete_compute_instance
TypedWrite(outcome) ==
    LET response == _make_request(outcome)
    IN  IF response.raised # "none" THEN response ELSE Returned(None)

-----------------------------------------------------------------------------
(* SpecHttp: the request primitive, the parser and two typed endpoint      *)
(* methods, applied to what the transport can give                         *)

Text(n) == [k \in 1..n |-> "x"]

\* bodies: empty, JSON documents, JSON cut short, an HTML page, and texts
\* around the limit of the preview
Bodies ==
    {[text |-> <<>>, json |-> None],
     [text |-> <<"{", "}">>, json |-> Some(<<>>)],
     [text |-> <<"[", "]">>, json |-> Some(<<>>)],
     [text |-> <<"{">>, json |-> None],
     [text |-> <<"<", "h", "t", "m", "l", ">">>, json |-> None]}
    \cup {[text |-> Text(ResponseBodyLimit + d), json |-> None] : d \in {-1, 0, 1}}

JsonUpperCase ==
    <<"A", "p", "p", "l", "i", "c", "a", "t", "i", "o", "n", "/",
      "J", "S", "O", "N">>

JsonWithCharset ==
    ApplicationJson
    \o <<";", " ", "c", "h", "a", "r", "s", "e", "t", "=", "u", "t", "f", "-", "8">>

TextHtml == <<"t", "e", "x", "t", "/", "h", "t", "m", "l">>

\* the Content-Type header: absent, empty, or one of the media types
ContentTypes ==
    {None, Some(<<>>), Some(ApplicationJson), Some(JsonUpperCase),
     Some(JsonWithCharset), Some(TextHtml)}

StatusCodes == {200, 204, 304, 404, 503}

TransportOutcomes ==
    {[kind |-> k] : k \in {"ConnectionError", "Timeout"}}
    \cup {[kind |-> "response", status_code |-> sc, content_type |-> ct,
           text |-> b.text, json |-> b.json] :
             sc \in StatusCodes, ct \in ContentTypes, b \in Bodies}

HttpCalls ==
    {[name |-> n, outcome |-> o] :
        n \in {"_make_request", "get_compute_instance", "delete_compute_instance"},
        o \in TransportOutcomes}
    \cup {[name |-> "_parse_json_response", outcome |-> o] :
             o \in {t \in TransportOutcomes : t.kind = "response"}}

InitHttp ==
    /\ backend_components = <<>>
    /\ resource_type = "instance"
    /\ identity_api_url = None
    /\ instances = <<>>
    /\ clusters = {}
    /\ users = <<>>
    /\ groups = <<>>
    /\ op \in HttpCalls
    /\ ret = Pending
    /\ log = <<>>

\* the answer a caller of the typed endpoint method sees
AnswerOf(r) == IF r.raised = "none" THEN "ok" ELSE "api_error"

ApplyHttp(r, method, endpoint) ==
    /\ ret' = r
    /\ log' = <<Exch(method, endpoint, <<"a">>, AnswerOf(r))>>
    /\ UNCHANGED <<config, provider, identity, op>>

MakeRequest ==
    /\ Called("_make_request")
    /\ ApplyHttp(_make_request(op.outcome), "GET", "instances")

ParseJsonResponse ==
    /\ Called("_parse_json_response")
    /\ ret' = _parse_json_response(op.outcome)
    /\ UNCHANGED <<config, provider, identity, op, log>>

GetComputeInstance ==
    /\ Called("get_compute_instance")
    /\ ApplyHttp(TypedRead(op.outcome), "GET", "instances")

DeleteComputeInstance ==
    /\ Called("delete_compute_instance")
    /\ ApplyHttp(TypedWrite(op.outcome), "DELETE", "instances")

NextHttp ==
    \/ MakeRequest
    \/ ParseJsonResponse
    \/ GetComputeInstance
    \/ DeleteComputeInstance

SpecHttp == InitHttp /\ [][NextHttp]_vars

-----------------------------------------------------------------------------
(* Claims on the request primitive and the parser, checked under SpecHttp *)

Html == <<"<", "h", "t", "m", "l", ">">>

\* the transport gave a response with a 2xx status
Succeeded(outcome) ==
    /\ outcome.kind = "response"
    /\ 200 <= outcome.status_code
    /\ outcome.status_code < 300

\* C21: _make_request returns a response only when the transport succeeded
\* and the status is 2xx; on a non-2xx status or a network-level failure it
\* raises NscaleAPIError chained to the underlying failure, whose message
\* carries the status and at most the first 500 characters of the body when
\* a response exists; no typed endpoint method swallows this error.
C21_RequestRaisesUnless2xx ==
    (ret # Pending
     /\ op.name \in {"_make_request", "get_compute_instance",
                     "delete_compute_instance"})
        => LET o == op.outcome
           IN  IF Succeeded(o)
               THEN op.name = "_make_request" => ret = Returned(o)
               ELSE /\ ret.raised = "NscaleAPIError"
                    /\ ret.cause = (IF o.kind = "response" THEN "HTTPError"
                                    ELSE o.kind)
                    /\ IF o.kind # "response" THEN ret.message = None
                       ELSE /\ ret.message # None
                            /\ ret.message[1].status = o.status_code
                            /\ Len(ret.message[1].body) <= 500
                            /\ \A k \in DOMAIN ret.message[1].body :
                                   ret.message[1].body[k] = o.text[k]

\* the Content-Type headers that contain application/json, in any case
JsonContentTypes ==
    {Some(ApplicationJson), Some(JsonUpperCase), Some(JsonWithCharset)}

\* C22: _parse_json_response decides in this order: status 204 gives an
\* empty object; else an empty body gives an empty object; else a
\* Content-Type without application/json raises NscaleAPIError; else a body
\* that fails JSON decoding raises NscaleAPIError; only otherwise the
\* decoded body is returned.  So a non-empty HTML body with status 200 is
\* always an error.
C22_ParseOrder ==
    Done("_parse_json_response") =>
        LET r == op.outcome
        IN  /\ ret = (IF r.status_code = 204 THEN Returned(<<>>)
                      ELSE IF r.text = <<>> THEN Returned(<<>>)
                      ELSE IF r.content_type \notin JsonContentTypes
                           THEN Raised("NscaleAPIError")
                      ELSE IF r.json = None
                           THEN RaisedFrom("NscaleAPIError", "ValueError")
                      ELSE Returned(r.json[1]))
            /\ (r.status_code = 200 /\ r.text = Html)
                   => ret.raised = "NscaleAPIError"

\* an HTML page came with status 200 and a JSON Content-Type: decoding
\* failed and the parser raised
C22_Witness ==
    /\ Done("_parse_json_response")
    /\ op.outcome.status_code = 200
    /\ op.outcome.text = Html
    /\ op.outcome.content_type = Some(JsonWithCharset)
    /\ ret = RaisedFrom("NscaleAPIError", "ValueError")

-----------------------------------------------------------------------------
(* Backend adapter: the hooks around creation *)

\* a hook that pushes the limits whatever was collected
HasLimits_Always(nscale_limits) == TRUE

\* if nscale_limits:
HasLimits(nscale_limits) == DOMAIN nscale_limits # {}

\* self.client.set_resource_limits(resource_backend_id, nscale_limits), as
\* the log records it ahead of the requests the call issues
ClientCall(name, id, args, r) ==
    ExchBody("CALL", name, id, IF r.raised = "none" THEN "ok" ELSE "api_error", args)

\* NscaleBackend.post_create_resource; raw_limits is waldur_resource.limits
post_create_resource(w, resource_backend_id, raw_limits, fault) ==
    LET nscale_limits == _collect_resource_limits(raw_limits).nscale_limits
        s == set_resource_limits(w, resource_backend_id, nscale_limits, fault)
        call == ClientCall("set_resource_limits", resource_backend_id,
                           nscale_limits, s.ret)
    IN  IF ~HasLimits(nscale_limits) THEN Outcome(Returned(None), <<>>, w)
        ELSE IF s.ret.raised # "none" THEN Outcome(s.ret, <<call>> \o s.log, s.world)
        ELSE Outcome(Returned(None), <<call>> \o s.log, s.world)

\* a lookup that creates the network
NetworkRequestMethod_Post == "POST"

\* self._make_request("GET", f"/api/v2/networks/{network_id}")
NetworkRequestMethod == "GET"

\* NscaleClient.get_network: the region service answers or not
get_network(w, network_id, fault) == ReadAnswer(TRUE, <<>>, fault)

\* a hook that asks again after a failed lookup
NetworkLookups_Retried(network_id, answer) ==
    IF answer = "api_error"
    THEN <<Exch(NetworkRequestMethod, "networks", network_id, answer),
           Exch(NetworkRequestMethod, "networks", network_id, answer)>>
    ELSE <<Exch(NetworkRequestMethod, "networks", network_id, answer)>>

\* the requests of the try block of _pre_create_resource
NetworkLookups(network_id, answer) ==
    <<Exch(NetworkRequestMethod, "networks", network_id, answer)>>

\* NscaleBackend._pre_create_resource; network_id is the backend's
\* default_network_id setting.  The answer is not read, and the handler is
\* "except Exception".
_pre_create_resource(w, network_id, fault) ==
    IF network_id = <<>> THEN Outcome(Returned(None), <<>>, w)
    ELSE Outcome(Returned(None),
                 NetworkLookups(network_id, get_network(w, network_id, fault).kind),
                 w)

-----------------------------------------------------------------------------
(* SpecCalls: every operation of the adapter, called once.  The backend    *)
(* and its client are constructed, the provider or the identity service    *)
(* holds some documents, and one call is made and runs to completion.      *)

\* configurations of the backend: no component, cpu with a factor, cpu
\* and gpu, gpu alone
AdapterConfigs ==
    {<<>>,
     [cpu |-> [measured_unit |-> "unit", unit_factor |-> 2]],
     [cpu |-> [measured_unit |-> "unit", unit_factor |-> 2],
      gpu |-> [measured_unit |-> "unit"]],
     [gpu |-> [measured_unit |-> "unit"]]}

\* waldur_resource.limits of the resource just created
CreatedLimits ==
    {None, Some(<<>>), Some([cpu |-> 1]), Some([cpu |-> 0]), Some([gpu |-> 1]),
     Some([cpu |-> 1, memory |-> 2, gpu |-> 1])}

NetworkIds == {<<>>, <<"n">>}

\* calls of the client's generic contract on the compute service
ClientCalls ==
    OpsCalls
    \cup {[name |-> n, id |-> id] :
             n \in {"get_resource", "client.delete_resource"}, id \in BackendIds}

\* calls of the backend's hooks
HookCalls ==
    {[name |-> "_create_backend_resource", id |-> id] : id \in ProviderIds}
    \cup {[name |-> "delete_resource", backend_id |-> b] :
             b \in {None} \cup {Some(id) : id \in BackendIds}}
    \cup {[name |-> "post_create_resource", id |-> id, limits |-> l] :
             id \in ProviderIds, l \in CreatedLimits}
    \cup {[name |-> "_pre_create_resource", network_id |-> n] : n \in NetworkIds}
    \cup {[name |-> "_collect_resource_limits", limits |-> l] : l \in CreatedLimits}
    \cup UNION {{[name |-> "_get_usage_report", ids |-> ids, resp |-> resp] :
                    resp \in [1..Len(ids) ->
                                 {ApiError, Malformed,
                                  Ok([spec |-> [cpu |-> 1], top |-> <<>>])}]} :
                   ids \in UsageIdLists}

\* calls of the association methods
AssociationCalls ==
    {[name |-> n, user |-> u, resource_id |-> r] :
        n \in {"get_association", "create_association", "delete_association"},
        u \in Usernames, r \in ResourceIds}
    \cup {[name |-> "list_resource_users", resource_id |-> r] : r \in ResourceIds}

\* states of the identity service: empty, a user without group, a user in
\* the group of a resource, two users in the group of one resource which
\* is listed before the group of another
IdentityWorlds ==
    {[users |-> <<>>, groups |-> <<>>],
     [users |-> <<UserDoc(1, "u")>>, groups |-> <<>>],
     [users |-> <<UserDoc(1, "u")>>, groups |-> <<GroupDoc(1, <<"a">>, <<1>>)>>],
     [users |-> <<UserDoc(1, "u"), UserDoc(2, "v")>>,
      groups |-> <<GroupDoc(1, <<"b", "a">>, <<1, 2>>),
                   GroupDoc(2, <<"a">>, <<>>)>>]}

InitCalls ==
    /\ ret = Pending
    /\ log = <<>>
    /\ \/ /\ backend_components = <<>>
          /\ resource_type = "instance"
          /\ identity_api_url = None
          /\ instances \in UNION {[S -> InstanceStates] : S \in SUBSET ProviderIds}
          /\ clusters \in SUBSET ProviderIds
          /\ users = <<>>
          /\ groups = <<>>
          /\ op \in ClientCalls
       \/ /\ backend_components \in AdapterConfigs
          /\ resource_type \in {"instance", "cluster"}
          /\ identity_api_url = None
          /\ instances \in UNION {[S -> {[spec |-> <<>>, running |-> TRUE]}] :
                                      S \in SUBSET ProviderIds}
          /\ clusters \in SUBSET ProviderIds
          /\ users = <<>>
          /\ groups = <<>>
          /\ op \in HookCalls
          /\ op.name = "delete_resource" =>
                 (resource_type = "cluster" \/ op.backend_id # None)
       \/ /\ backend_components = <<>>
          /\ resource_type = "instance"
          /\ identity_api_url \in {None, Some("identity_api_url")}
          /\ instances = <<>>
          /\ clusters = {}
          /\ \E i \in IdentityWorlds : users = i.users /\ groups = i.groups
          /\ op \in IdentityCalls \cup AssociationCalls

GetResourceCall ==
    /\ Called("get_resource")
    /\ \E f1, f2 \in ReadFaults :
           Apply(op, get_resource(World, op.id, f1, f2))

DeleteResourceCall ==
    /\ Called("client.delete_resource")
    /\ \E f1, f2 \in WriteFaults :
           Apply(op, client_delete_resource(World, op.id, f1, f2))

CreateBackendResourceCall ==
    /\ Called("_create_backend_resource")
    /\ \E f1, f2 \in ReadFaults, f3 \in WriteFaults :
           Apply(op, _create_backend_resource(World, op.id, f1, f2, f3))

BackendDeleteResourceCall ==
    /\ Called("delete_resource")
    /\ \E f1, f2 \in WriteFaults :
           Apply(op, backend_delete_resource(World, op.backend_id, f1, f2))

PostCreateResource ==
    /\ Called("post_create_resource")
    /\ \E fault \in WriteFaults :
           Apply(op, post_create_resource(World, op.id, op.limits, fault))

PreCreateResource ==
    /\ Called("_pre_create_resource")
    /\ \E fault \in ReadFaults :
           Apply(op, _pre_create_resource(World, op.network_id, fault))

GetAssociationCall ==
    /\ Called("get_association")
    /\ \E out \in get_association(Identity, op.user, op.resource_id) :
           ApplyIdentity(out)

CreateAssociationCall ==
    /\ Called("create_association")
    /\ \E out \in create_association(Identity, op.user, op.resource_id) :
           ApplyIdentity(out)

DeleteAssociationCall ==
    /\ Called("delete_association")
    /\ \E out \in delete_association(Identity, op.user, op.resource_id) :
           ApplyIdentity(out)

ListResourceUsersCall ==
    /\ Called("list_resource_users")
    /\ \E out \in list_resource_users(Identity, op.resource_id) :
           ApplyIdentity(out)

NextCalls ==
    \/ NextOps
    \/ NextIdentity
    \/ NextUsage
    \/ GetResourceCall
    \/ DeleteResourceCall
    \/ CreateBackendResourceCall
    \/ BackendDeleteResourceCall
    \/ PostCreateResource
    \/ PreCreateResource
    \/ GetAssociationCall
    \/ CreateAssociationCall
    \/ DeleteAssociationCall
    \/ ListResourceUsersCall

SpecCalls == InitCalls /\ [][NextCalls]_vars

-----------------------------------------------------------------------------
(* Claims on the adapter's operations, checked under SpecCalls and Spec *)

\* the host limits of the call, as a dict
HostLimitsOf(call) == IF call.limits = None THEN <<>> ELSE call.limits[1]

\* the configured components that the host limits of the call hold
PresentComponents(call) == DOMAIN backend_components \cap DOMAIN HostLimitsOf(call)

\* the unit_factor the configuration declares for c, 1 when it declares none
FactorOf(c) ==
    IF "unit_factor" \in DOMAIN backend_components[c]
    THEN backend_components[c].unit_factor ELSE 1

\* the positions of the log that record a call of the client
CallsOfClient == {k \in DOMAIN log : log[k].method = "CALL"}

\* the positions of the log that record an HTTP request
Requests == {k \in DOMAIN log : log[k].method # "CALL"}

\* C23: post_create_resource re-collects the limits and calls
\* client.set_resource_limits exactly once, with the backend ID of the
\* resource info and the limits multiplied by unit_factor, if and only if
\* a configured component is present in the host limits; when none is
\* present it issues no provider call.
C23_PostCreatePushesLimits ==
    Done("post_create_resource") =>
        IF PresentComponents(op) = {} THEN log = <<>> /\ ret = Returned(None)
        ELSE /\ CallsOfClient = {1}
             /\ log[1].endpoint = "set_resource_limits"
             /\ log[1].id = op.id
             /\ DOMAIN log[1].body = PresentComponents(op)
             /\ \A c \in PresentComponents(op) :
                    log[1].body[c] = HostLimitsOf(op)[c] * FactorOf(c)

\* cpu (factor 2) and gpu are configured and the host set cpu, memory and
\* gpu: the client was called with cpu doubled and gpu, and sent the update
C23_Witness ==
    /\ Done("post_create_resource")
    /\ DOMAIN backend_components = {"cpu", "gpu"}
    /\ DOMAIN HostLimitsOf(op) = {"cpu", "memory", "gpu"}
    /\ log[1].body = [cpu |-> 2, gpu |-> 1]
    /\ Len(log) = 2
    /\ log[2].answer = "ok"

\* the requests at j and k of the log are the same request
SameRequest(j, k) ==
    /\ log[j].method = log[k].method
    /\ log[j].endpoint = log[k].endpoint
    /\ log[j].id = log[k].id

\* the request at j failed and was issued again at k
RepeatedAfterFailure(j, k) ==
    /\ j < k
    /\ log[j].answer = "api_error"
    /\ SameRequest(j, k)

TypedEndpoints ==
    IdentityReads \cup IdentityWrites \cup {"get_compute_instance",
                                           "delete_compute_instance"}

\* get_resource or delete_resource asked the instance endpoint, and after a
\* failure the cluster endpoint, once each
FallbackOnce ==
    /\ Len(log) \in {1, 2}
    /\ log[1].endpoint = "instances"
    /\ Len(log) = 2 =>
           /\ log[1].answer # "ok"
           /\ log[2].endpoint = "clusters"
           /\ log[2].method = log[1].method
           /\ log[2].id = log[1].id

\* C24: the adapter performs no retries: within one operation no HTTP
\* request (same method and URL) is issued again after it failed; each
\* typed endpoint method issues exactly one request per invocation, and the
\* fallbacks of get_resource and delete_resource call the cluster endpoint
\* once rather than repeating the failed instance request.
C24_NoRetries ==
    ret # Pending =>
        /\ \A j, k \in Requests : ~RepeatedAfterFailure(j, k)
        /\ op.name \in TypedEndpoints => Len(log) = 1
        /\ op.name \in {"get_resource", "client.delete_resource"} => FallbackOnce

\* C24 (as it holds): no request is issued again because it failed.  An
\* operation over a list of IDs issues one request per entry of the list,
\* so a request recurs only where the caller passed the same ID twice; a
\* typed endpoint method issues one request, none when it is an identity
\* endpoint and no identity URL is configured; the fallbacks of
\* get_resource and delete_resource call the cluster endpoint once.
C24_NoRetriesPerEntry ==
    ret # Pending =>
        /\ \A j, k \in Requests :
               RepeatedAfterFailure(j, k) =>
                   /\ op.name \in {"get_usage_report", "_get_usage_report"}
                   /\ Len(log) = Len(op.ids)
                   /\ op.ids[j] = op.ids[k]
        /\ op.name \in TypedEndpoints =>
               Len(log) = (IF IdentityUrlMissing THEN 0 ELSE 1)
        /\ op.name \in {"get_resource", "client.delete_resource"} => FallbackOnce

\* get_resource: the instance request failed, the cluster endpoint was
\* asked once and the instance request was not repeated
C24_Witness ==
    /\ Done("get_resource")
    /\ Len(log) = 2
    /\ log[1].answer = "api_error"
    /\ log[2].endpoint = "clusters"

\* C28: _create_backend_resource issues a create request only if no
\* instance and no cluster with the target backend ID exists on the
\* provider, whatever the outcome of the existence lookups: a lookup that
\* fails never leads to a create request for a resource that exists.
C28_NoCreateWhenExists ==
    [][(/\ op'.name = "_create_backend_resource"
        /\ \E k \in DOMAIN log' : IsCreate(log'[k]))
           => /\ op'.id \notin DOMAIN instances
              /\ op'.id \notin clusters]_vars

\* a request that creates, updates, deletes, stops or starts an instance
InstanceMutation(e) ==
    /\ e.method \in {"POST", "PUT", "DELETE"}
    /\ e.endpoint \in {"instances", "stop", "start"}

\* C29: a backend configured with resource_type 'cluster' never issues an
\* instance-mutating request from _create_backend_resource,
\* post_create_resource or delete_resource, for any host limits and any
\* backend ID.
C29_ClusterBackendSparesInstances ==
    (/\ resource_type = "cluster"
     /\ ret # Pending
     /\ op.name \in {"_create_backend_resource", "post_create_resource",
                     "delete_resource"})
        => \A k \in DOMAIN log : ~InstanceMutation(log[k])

QueryOperations ==
    {"ping", "diagnostics", "_pre_create_resource", "get_resource_metadata",
     "_get_usage_report", "list_resources", "get_resource",
     "get_resource_limits", "get_usage_report", "get_association",
     "list_resource_users"}

\* C30: the query operations leave provider and identity state unchanged
\* and issue only GET requests, on success and on every failure path.
C30_QueriesOnlyRead ==
    [][(op'.name \in QueryOperations /\ ret' # Pending)
           => /\ UNCHANGED <<provider, identity>>
              /\ \A k \in DOMAIN log' : log'[k].method = "GET"]_vars

\* list_resource_users looked up two members and one of the lookups failed
C30_Witness ==
    /\ Done("list_resource_users")
    /\ Len(log) = 3
    /\ log[2].answer = "api_error"
    /\ \A k \in DOMAIN log : log[k].method = "GET"

=============================================================================
